---- MODULE Spec2Model ----
(***************************************************************************)
(* A model of the NoC simulation kernel of xls/noc/simulation/             *)
(* sim_objects.cc: the cycle driver (RunCycle / Tick), the per-connection  *)
(* channel state, and the four simulated component kinds (network          *)
(* interface source, link, input-buffered VC router, network interface     *)
(* sink) with their forward / reverse propagation.                         *)
(*                                                                         *)
(* Indices: the code's vectors are 0-based; sequences here are 1-based.    *)
(* A VC index stored in a phit keeps the code's 0-based value, and is      *)
(* turned into a sequence index by adding 1 where the code indexes a       *)
(* vector with it.  Port indices handled by the routing table are kept     *)
(* 1-based throughout.                                                     *)
(***************************************************************************)
EXTENDS Integers, Sequences, FiniteSets, TLC

\* ------------------------------------------------------------------ bounds
\* Last cycle the harness runs.
MaxCycle == 6
\* Number of phits the harness injects over a run.
MaxInject == 2
\* Largest max_ticks argument the harness passes to RunCycle.
MaxTicksArg == 5
\* Ticks after which the model stops following a convergence loop that
\* never converges (the loop of the code has no such stop).
TickCap == 6
\* How far in the future the harness may schedule a phit.
SendDelay == 2
\* Last cycle the harness runs in the credit starvation scenario.
StarveCycles == 8
\* Last cycle the harness runs when the order of the components is free.
AnyOrderCycles == 3

\* Last cycle the harness runs on the networks of routers.
RouterCycles == 4
\* The most pipeline stages of a link lane.
MaxStages == 2
\* Last cycle the harness runs on the networks of one link.
LinkCycles == 6
\* Eventual delivery: the harness injects before cycle InjectBefore and runs
\* the cycles up to DeliveryCycles.
InjectBefore == 2
DeliveryCycles == 10
\* The values a read past the end of a vector may return: 0..MaxUndefined.
MaxUndefined == 2

\* ------------------------------------------------------- program constants
\* NocSimulator's cycle counter before the first RunCycle.  RunCycle
\* increments before it ticks, and cycle 0 is simulated, so construction
\* leaves the counter one below 0.
InitialCycle == -1
\* credit_.resize(virtual_channel_count, 0)
InitialCredit == 0

\* ------------------------------------------------------------------- phits
DataPhit(data, valid, vc, destination_index) ==
  [data |-> data, valid |-> valid, vc |-> vc,
   destination_index |-> destination_index]

MetadataPhit(data, valid) == [data |-> data, valid |-> valid]

TimedPhit(cycle, phit) == [cycle |-> cycle, phit |-> phit]

CreditState(cycle, credit) == [cycle |-> cycle, credit |-> credit]

\* ---------------------------------------------------------------- networks
\* A network as the simulator sees it after NetworkManager, NocParameters
\* and DistributedRoutingTable have been set up:
\*   port_vc[c]   VirtualChannelCount of the source port of connection c
\*   srcs[i]      [sink_connection_index, vc_count]
\*   links[i]     [src_connection_index, sink_connection_index,
\*                 forward_pipeline_stages, reverse_pipeline_stages]
\*   routers[i]   [inputs, outputs (connection indices), in_depth[i][vc],
\*                 out_vc[o], route]
\*   sinks[i]     [src_connection_index, depth[vc]]

\* source -> link -> sink
NetLine(fwd_stages, rev_stages, depths) ==
  [name    |-> "line",
   port_vc |-> <<Len(depths), Len(depths)>>,
   srcs    |-> <<[sink_connection_index |-> 1, vc_count |-> Len(depths)]>>,
   links   |-> <<[src_connection_index |-> 1, sink_connection_index |-> 2,
                  forward_pipeline_stages |-> fwd_stages,
                  reverse_pipeline_stages |-> rev_stages]>>,
   routers |-> <<>>,
   sinks   |-> <<[src_connection_index |-> 2, depth |-> depths]>>]

\* two sources -> router (2 inputs, 1 output) -> link -> sink, one VC
\* everywhere
NetArb(in_depth, sink_depth) ==
  [name    |-> "arb",
   port_vc |-> <<1, 1, 1, 1>>,
   srcs    |-> <<[sink_connection_index |-> 1, vc_count |-> 1],
                 [sink_connection_index |-> 2, vc_count |-> 1]>>,
   links   |-> <<[src_connection_index |-> 3, sink_connection_index |-> 4,
                  forward_pipeline_stages |-> 1,
                  reverse_pipeline_stages |-> 1]>>,
   routers |-> <<[inputs   |-> <<1, 2>>,
                  outputs  |-> <<3>>,
                  in_depth |-> <<<<in_depth>>, <<in_depth>>>>,
                  out_vc   |-> <<1>>,
                  route    |-> [k \in {1, 2} \X {0} \X {0} |->
                                  [port_index |-> 1, vc_index |-> 0]]]>>,
   sinks   |-> <<[src_connection_index |-> 4, depth |-> <<sink_depth>>]>>]

\* source -> router -> sink, with the router's second output looped back
\* to its second input through a link (a forward ring)
NetRing ==
  [name    |-> "ring",
   port_vc |-> <<1, 1, 1, 1>>,
   srcs    |-> <<[sink_connection_index |-> 1, vc_count |-> 1]>>,
   links   |-> <<[src_connection_index |-> 3, sink_connection_index |-> 4,
                  forward_pipeline_stages |-> 1,
                  reverse_pipeline_stages |-> 1]>>,
   routers |-> <<[inputs   |-> <<1, 4>>,
                  outputs  |-> <<2, 3>>,
                  in_depth |-> <<<<1>>, <<1>>>>,
                  out_vc   |-> <<1, 1>>,
                  route    |-> [k \in {1, 2} \X {0} \X {0} |->
                                  [port_index |-> 1, vc_index |-> 0]]]>>,
   sinks   |-> <<[src_connection_index |-> 2, depth |-> <<1>>]>>]

\* two sources -> router (2 inputs, 1 output) -> sink, one VC everywhere
NetArbDirect(in_depth, sink_depth) ==
  [name    |-> "arbdirect",
   port_vc |-> <<1, 1, 1>>,
   srcs    |-> <<[sink_connection_index |-> 1, vc_count |-> 1],
                 [sink_connection_index |-> 2, vc_count |-> 1]>>,
   links   |-> <<>>,
   routers |-> <<[inputs   |-> <<1, 2>>,
                  outputs  |-> <<3>>,
                  in_depth |-> <<<<in_depth>>, <<in_depth>>>>,
                  out_vc   |-> <<1>>,
                  route    |-> [k \in {1, 2} \X {0} \X {0} |->
                                  [port_index |-> 1, vc_index |-> 0]]]>>,
   sinks   |-> <<[src_connection_index |-> 3, depth |-> <<sink_depth>>]>>]

\* source -> router (1 input, 1 output) -> sink, one VC everywhere
NetThrough(in_depth, sink_depth) ==
  [name    |-> "through",
   port_vc |-> <<1, 1>>,
   srcs    |-> <<[sink_connection_index |-> 1, vc_count |-> 1]>>,
   links   |-> <<>>,
   routers |-> <<[inputs   |-> <<1>>,
                  outputs  |-> <<2>>,
                  in_depth |-> <<<<in_depth>>>>,
                  out_vc   |-> <<1>>,
                  route    |-> [k \in {1} \X {0} \X {0} |->
                                  [port_index |-> 1, vc_index |-> 0]]]>>,
   sinks   |-> <<[src_connection_index |-> 2, depth |-> <<sink_depth>>]>>]

\* source -> router -> link -> router -> sink, one VC everywhere: the second
\* router's input is driven by the link, which the first tick of a cycle
\* runs before the first router has written.
NetChain ==
  [name    |-> "chain",
   port_vc |-> <<1, 1, 1, 1>>,
   srcs    |-> <<[sink_connection_index |-> 1, vc_count |-> 1]>>,
   links   |-> <<[src_connection_index |-> 2, sink_connection_index |-> 3,
                  forward_pipeline_stages |-> 0,
                  reverse_pipeline_stages |-> 0]>>,
   routers |-> <<[inputs   |-> <<1>>,
                  outputs  |-> <<2>>,
                  in_depth |-> <<<<1>>>>,
                  out_vc   |-> <<1>>,
                  route    |-> [k \in {1} \X {0} \X {0} |->
                                  [port_index |-> 1, vc_index |-> 0]]],
                 [inputs   |-> <<3>>,
                  outputs  |-> <<4>>,
                  in_depth |-> <<<<1>>>>,
                  out_vc   |-> <<1>>,
                  route    |-> [k \in {1} \X {0} \X {0} |->
                                  [port_index |-> 1, vc_index |-> 0]]]>>,
   sinks   |-> <<[src_connection_index |-> 4, depth |-> <<1>>]>>]

\* source -> link -> router -> sink, one VC everywhere
NetFeed(fwd_stages, rev_stages, in_depth, sink_depth) ==
  [name    |-> "feed",
   port_vc |-> <<1, 1, 1>>,
   srcs    |-> <<[sink_connection_index |-> 1, vc_count |-> 1]>>,
   links   |-> <<[src_connection_index |-> 1, sink_connection_index |-> 2,
                  forward_pipeline_stages |-> fwd_stages,
                  reverse_pipeline_stages |-> rev_stages]>>,
   routers |-> <<[inputs   |-> <<2>>,
                  outputs  |-> <<3>>,
                  in_depth |-> <<<<in_depth>>>>,
                  out_vc   |-> <<1>>,
                  route    |-> [k \in {1} \X {0} \X {0} |->
                                  [port_index |-> 1, vc_index |-> 0]]]>>,
   sinks   |-> <<[src_connection_index |-> 3, depth |-> <<sink_depth>>]>>]

\* two sources (2 VCs and 1 VC) -> router (2 inputs, 2 outputs) -> two sinks
\* (2 VCs, the first of depth sink_depth, and 1 VC).  Destination 0 is the
\* first sink, reached on the VC the phit came in on; destination 1 is the
\* second sink.
NetXbar(sink_depth) ==
  [name    |-> "xbar",
   port_vc |-> <<2, 1, 2, 1>>,
   srcs    |-> <<[sink_connection_index |-> 1, vc_count |-> 2],
                 [sink_connection_index |-> 2, vc_count |-> 1]>>,
   links   |-> <<>>,
   routers |-> <<[inputs   |-> <<1, 2>>,
                  outputs  |-> <<3, 4>>,
                  in_depth |-> <<<<1, 1>>, <<1>>>>,
                  out_vc   |-> <<2, 1>>,
                  route    |-> [k \in {<<1, 0, 0>>, <<1, 1, 0>>, <<2, 0, 0>>,
                                          <<1, 0, 1>>, <<1, 1, 1>>, <<2, 0, 1>>} |->
                                  IF k[3] = 0
                                  THEN [port_index |-> 1, vc_index |-> k[2]]
                                  ELSE [port_index |-> 2, vc_index |-> 0]]]>>,
   sinks   |-> <<[src_connection_index |-> 3, depth |-> <<sink_depth, 1>>],
                 [src_connection_index |-> 4, depth |-> <<1>>]>>]

\* The networks the simulator is initialized with.
NetworkNames == {"line1", "line0", "arb", "ring"}

Network(name) ==
  CASE name = "line1" -> [NetLine(1, 1, <<2>>) EXCEPT !.name = name]
    [] name = "line0" -> [NetLine(0, 0, <<1, 1>>) EXCEPT !.name = name]
    [] name = "arb"   -> NetArb(1, 2)
    [] name = "ring"  -> NetRing


\* ------------------------------------------------------------------- state
VARIABLES
  net,            \* the network the simulator was initialized with
  cycle_,         \* NocSimulator::cycle_
  connections_,   \* NocSimulator::connections_ (SimConnectionState)
  srcs_,          \* NocSimulator::network_interface_sources_
  links_,         \* NocSimulator::links_
  routers_,       \* NocSimulator::routers_
  sinks_,         \* NocSimulator::network_interface_sinks_
  hist,           \* history of the run (read by no operation)
  pc,             \* where the harness is: "idle", "loop" (inside RunCycle),
                  \* "failed" (RunCycle returned an error), "aborted"
  nticks,         \* RunCycle's local nticks
  converged,      \* RunCycle's local converged
  max_ticks,      \* RunCycle's argument
  status,         \* status / value returned by the last call of the harness
  lastOp,         \* the last call of the harness
  injected        \* number of phits accepted by SendPhitAtTime so far

simvars == <<cycle_, connections_, srcs_, links_, routers_, sinks_>>
vars == <<net, cycle_, connections_, srcs_, links_, routers_, sinks_, hist,
          pc, nticks, converged, max_ticks, status, lastOp, injected>>

Range(s) == {s[i] : i \in DOMAIN s}

\* ------------------------------------------------ CreateSimulationObjects
\* CreateConnection without "if (vc_count == 0) vc_count = 1".
CreateConnectionAsDeclared(cycle, vc_count_in) ==
  [forward_channels |-> TimedPhit(cycle, DataPhit(0, FALSE, 0, 0)),
   reverse_channels |->
     [v \in 1..vc_count_in |-> TimedPhit(cycle, MetadataPhit(0, FALSE))]]

\* NocSimulator::CreateConnection: forward phit invalid and zeroed, one
\* invalid reverse phit per VC of the source port (one when it has none),
\* all stamped with the cycle counter.
CreateConnection(cycle, vc_count_in) ==
  LET vc_count == IF vc_count_in = 0 THEN 1 ELSE vc_count_in
  IN [forward_channels |-> TimedPhit(cycle, DataPhit(0, FALSE, 0, 0)),
      reverse_channels |->
        [v \in 1..vc_count |-> TimedPhit(cycle, MetadataPhit(0, FALSE))]]

\* SimNetworkInterfaceSrc::InitializeImpl (and the base Initialize, which
\* sets both propagation flags to the current cycle).
CreateNetworkInterfaceSrc(cycle, p) ==
  [data_to_send  |-> [v \in 1..p.vc_count |-> <<>>],
   credit        |-> [v \in 1..p.vc_count |-> InitialCredit],
   credit_update |-> [v \in 1..p.vc_count |-> CreditState(cycle, 0)],
   forward_propagated_cycle |-> cycle,
   reverse_propagated_cycle |-> cycle]

\* SimLink::InitializeImpl: one reverse FIFO per reverse channel of the
\* downstream connection.
CreateLink(cycle, p, conns) ==
  [forward_data_stages   |-> <<>>,
   reverse_credit_stages |->
     [v \in 1..Len(conns[p.sink_connection_index].reverse_channels) |-> <<>>],
   forward_propagated_cycle |-> cycle,
   reverse_propagated_cycle |-> cycle]

\* SimInputBufferedVCRouter::InitializeImpl.
CreateRouter(cycle, p) ==
  [input_buffers |->
     [i \in 1..Len(p.inputs) |-> [v \in 1..Len(p.in_depth[i]) |-> <<>>]],
   input_credit_to_send |->
     [i \in 1..Len(p.inputs) |-> [v \in 1..Len(p.in_depth[i]) |-> 0]],
   credit |->
     [o \in 1..Len(p.outputs) |-> [v \in 1..p.out_vc[o] |-> InitialCredit]],
   credit_update |->
     [o \in 1..Len(p.outputs) |->
        [v \in 1..p.out_vc[o] |-> CreditState(cycle, 0)]],
   internal_propagated_cycle |-> cycle,
   forward_propagated_cycle |-> cycle,
   reverse_propagated_cycle |-> cycle]

\* SimNetworkInterfaceSink::InitializeImpl.  The input buffers hold only
\* max_queue_size (depth of the network): the sink never queues.
CreateNetworkInterfaceSink(cycle, p) ==
  [received_traffic |-> <<>>,
   forward_propagated_cycle |-> cycle,
   reverse_propagated_cycle |-> cycle]

\* max_vc_ of a router: the largest VC count of its input ports.
RECURSIVE SeqMax(_)
SeqMax(s) ==
  IF s = <<>> THEN 0
  ELSE LET m == SeqMax(Tail(s)) IN IF Head(s) > m THEN Head(s) ELSE m

MaxVc(p) == SeqMax([i \in 1..Len(p.in_depth) |-> Len(p.in_depth[i])])

\* The history kept beside the simulator: per credit counter the number of
\* valid phits sent and the sum of the credit updates captured; per
\* connection the number of valid forward writes in the current cycle; and
\* the sends of the current cycle with the credit before the send; and the
\* forward phit every connection held when the current cycle began.
NoTick ==
  [ticked |-> FALSE, ret |-> FALSE, fwd_ok |-> 0, rev_ok |-> 0,
   retried |-> FALSE]

CreateTickHistory(n) ==
  [src    |-> [i \in DOMAIN n.srcs |-> NoTick],
   link   |-> [i \in DOMAIN n.links |-> NoTick],
   router |-> [i \in DOMAIN n.routers |-> NoTick],
   sink   |-> [i \in DOMAIN n.sinks |-> NoTick]]

\* The pushes onto the FIFO of each lane of each link in the current cycle:
\* fwd for the forward lane, rev[v] for the reverse lane of VC v.
CreateLaneHistory(n) ==
  [l \in DOMAIN n.links |->
     [fwd |-> 0,
      rev |-> [v \in 1..(IF n.port_vc[n.links[l].sink_connection_index] = 0
                         THEN 1
                         ELSE n.port_vc[n.links[l].sink_connection_index]) |-> 0]]]

\* The phits pushed last onto the FIFO of each lane of each link, oldest
\* first, one more than a lane has stages.
CreatePushedHistory(n) ==
  [l \in DOMAIN n.links |->
     [fwd |-> <<>>,
      rev |-> [v \in 1..(IF n.port_vc[n.links[l].sink_connection_index] = 0
                         THEN 1
                         ELSE n.port_vc[n.links[l].sink_connection_index]) |->
                 <<>>]]]

PushedHistory(pushed, push, phit) ==
  IF push = 0 THEN pushed
  ELSE IF Len(pushed) > MaxStages THEN Append(Tail(pushed), phit)
  ELSE Append(pushed, phit)

CreateHistory(n) ==
  [src_sent |-> [i \in DOMAIN n.srcs |-> [v \in 1..n.srcs[i].vc_count |-> 0]],
   src_recv |-> [i \in DOMAIN n.srcs |-> [v \in 1..n.srcs[i].vc_count |-> 0]],
   rtr_sent |-> [r \in DOMAIN n.routers |->
                   [o \in DOMAIN n.routers[r].outputs |->
                      [v \in 1..n.routers[r].out_vc[o] |-> 0]]],
   rtr_recv |-> [r \in DOMAIN n.routers |->
                   [o \in DOMAIN n.routers[r].outputs |->
                      [v \in 1..n.routers[r].out_vc[o] |-> 0]]],
   writes   |-> [c \in DOMAIN n.port_vc |-> 0],
   sends    |-> {},
   prev_fwd |-> [c \in DOMAIN n.port_vc |-> DataPhit(0, FALSE, 0, 0)],
   route_failed |-> FALSE,
   wrote    |-> {},
   accepted |-> <<>>,
   out_of_range |-> {},
   canon    |-> <<>>,
   call     |-> <<>>,
   tick     |-> CreateTickHistory(n),
   pushes   |-> CreateLaneHistory(n),
   pushed   |-> CreatePushedHistory(n),
   entry_cycle |-> InitialCycle,
   created  |-> 0]

\* The simulator state as one record, threaded through a tick.  Two fields
\* are not state of the simulator: ret is the value returned by the last
\* TryForwardPropagation / TryReversePropagation, conv the conjunction of
\* the converged flags of the tick so far.  abort is set when an XLS_CHECK
\* has failed: the process is gone, and what the rest of the tick computes
\* is never seen.
CreateSimulationObjects(n, cycle) ==
  LET conns == [c \in DOMAIN n.port_vc |-> CreateConnection(cycle, n.port_vc[c])]
  IN [net     |-> n,
      cycle   |-> cycle,
      conn    |-> conns,
      src     |-> [i \in DOMAIN n.srcs |-> CreateNetworkInterfaceSrc(cycle, n.srcs[i])],
      link    |-> [i \in DOMAIN n.links |-> CreateLink(cycle, n.links[i], conns)],
      router  |-> [i \in DOMAIN n.routers |-> CreateRouter(cycle, n.routers[i])],
      sink    |-> [i \in DOMAIN n.sinks |-> CreateNetworkInterfaceSink(cycle, n.sinks[i])],
      hist    |-> CreateHistory(n),
      ret     |-> TRUE,
      conv    |-> TRUE,
      abort   |-> FALSE]

\* ------------------------------------------------------ SimplePipelineImpl
\* PipelineDrains with the head popped one push later.
PipelineDrainsLate(size, stage_count) == size > stage_count + 1

\* if (state_.size() > stage_count_): the FIFO holds more than the stages.
PipelineDrains(size, stage_count) == size > stage_count

\* PipelinePush with the phit just pushed driven downstream in place of the
\* head.
PipelinePushNewest(current_cycle, stage_count, from, to, state) ==
  LET pushed == Append(state, from.phit)
  IN IF PipelineDrains(Len(pushed), stage_count)
     THEN [ret   |-> FALSE,
           to    |-> TimedPhit(current_cycle, from.phit),
           state |-> state,
           push  |-> 1]
     ELSE [ret   |-> FALSE,
           to    |-> TimedPhit(current_cycle,
                      [to.phit EXCEPT !.valid = FALSE, !.data = 0]),
           state |-> pushed,
           push  |-> 1]

\* "state_.push(from_.phit)" and what follows it: the lane after a push.
PipelinePush(current_cycle, stage_count, from, to, state) ==
  LET pushed == Append(state, from.phit)
  IN IF PipelineDrains(Len(pushed), stage_count)
     THEN [ret   |-> FALSE,
           to    |-> TimedPhit(current_cycle, Head(pushed)),
           state |-> Tail(pushed),
           push  |-> 1]
     ELSE [ret   |-> FALSE,
           to    |-> TimedPhit(current_cycle,
                      [to.phit EXCEPT !.valid = FALSE, !.data = 0]),
           state |-> pushed,
           push  |-> 1]

\* TryPropagation without the test of the downstream stamp.
TryPropagationRedrive(current_cycle, stage_count, from, to, state) ==
  IF from.cycle = current_cycle
  THEN PipelinePush(current_cycle, stage_count, from, to, state)
  ELSE [ret |-> FALSE, to |-> to, state |-> state, push |-> 0]

\* SimplePipelineImpl::TryPropagation on one lane: from / to are the timed
\* phits of the two connections, state the lane's FIFO; push is the number
\* of pushes the call made.
TryPropagation(current_cycle, stage_count, from, to, state) ==
  IF from.cycle = current_cycle
  THEN IF to.cycle = current_cycle
       THEN [ret |-> TRUE, to |-> to, state |-> state, push |-> 0]
       ELSE PipelinePush(current_cycle, stage_count, from, to, state)
  ELSE [ret |-> FALSE, to |-> to, state |-> state, push |-> 0]

\* ------------------------------------------------------------------ SimLink
\* SimLink::TryForwardPropagation, given the outcome r of the lane.
LinkForwardResult(S, l, r) ==
  LET c == S.net.links[l].sink_connection_index
      wrote == r.to.cycle # S.conn[c].forward_channels.cycle /\ r.to.phit.valid
  IN [S EXCEPT
        !.conn[c].forward_channels = r.to,
        !.link[l].forward_data_stages = r.state,
        !.link[l].forward_propagated_cycle = IF r.ret THEN S.cycle ELSE @,
        !.hist.writes[c] = @ + (IF wrote THEN 1 ELSE 0),
        !.hist.pushes[l].fwd = @ + r.push,
        !.hist.pushed[l].fwd =
           PushedHistory(@, r.push,
             S.conn[S.net.links[l].src_connection_index].forward_channels.phit),
        !.ret = r.ret]

LinkTryForwardPropagation(S, l) ==
  LinkForwardResult(S, l,
    TryPropagation(S.cycle, S.net.links[l].forward_pipeline_stages,
       S.conn[S.net.links[l].src_connection_index].forward_channels,
       S.conn[S.net.links[l].sink_connection_index].forward_channels,
       S.link[l].forward_data_stages))

\* LinkReverseLaneResult with the outcome of the lane written to the reverse
\* channel of the link's downstream connection.
LinkReverseLaneResultDownstream(S, l, vc, r) ==
  [S EXCEPT
     !.conn[S.net.links[l].sink_connection_index].reverse_channels[vc] = r.to,
     !.link[l].reverse_credit_stages[vc] = r.state,
     !.hist.pushes[l].rev[vc] = @ + r.push,
     !.hist.pushed[l].rev[vc] =
        PushedHistory(@, r.push,
          S.conn[S.net.links[l].sink_connection_index].reverse_channels[vc].phit),
     !.ret = @ /\ r.ret]

\* One reverse lane vc (1-based) of SimLink::TryReversePropagation, given
\* the outcome r of the lane; ret stays TRUE while every lane so far
\* reported propagation (num_propagated == number of lanes tried).
LinkReverseLaneResult(S, l, vc, r) ==
  [S EXCEPT
     !.conn[S.net.links[l].src_connection_index].reverse_channels[vc] = r.to,
     !.link[l].reverse_credit_stages[vc] = r.state,
     !.hist.pushes[l].rev[vc] = @ + r.push,
     !.hist.pushed[l].rev[vc] =
        PushedHistory(@, r.push,
          S.conn[S.net.links[l].sink_connection_index].reverse_channels[vc].phit),
     !.ret = @ /\ r.ret]

RECURSIVE LinkReverseLanes(_, _, _)
LinkReverseLanes(S, l, vc) ==
  IF vc > Len(S.conn[S.net.links[l].sink_connection_index].reverse_channels)
  THEN S
  ELSE LinkReverseLanes(
         LinkReverseLaneResult(S, l, vc,
           TryPropagation(S.cycle, S.net.links[l].reverse_pipeline_stages,
             S.conn[S.net.links[l].sink_connection_index].reverse_channels[vc],
             S.conn[S.net.links[l].src_connection_index].reverse_channels[vc],
             S.link[l].reverse_credit_stages[vc])),
         l, vc + 1)

\* if (num_propagated == vc_count) { reverse_propagated_cycle_ = ...; }
LinkReverseDone(S, l) ==
  IF S.ret THEN [S EXCEPT !.link[l].reverse_propagated_cycle = S.cycle] ELSE S

LinkTryReversePropagation(S, l) ==
  LinkReverseDone(LinkReverseLanes([S EXCEPT !.ret = TRUE], l, 1), l)

\* -------------------------------------------------- SimNetworkInterfaceSrc
\* SrcHasCredit with the test weakened to >= 0.
SrcHasCreditOrZero(credit) == credit >= 0

\* The credit test of the send loop: if (credit_[vc] > 0).
SrcHasCredit(credit) == credit > 0

\* The "update credits" loop that opens the forward propagation of a source.
SrcApplyCreditUpdate(credit, credit_update) ==
  [v \in DOMAIN credit |->
     IF credit_update[v].credit > 0
     THEN credit[v] + credit_update[v].credit
     ELSE credit[v]]

\* SrcReadyVcs with the send loop ended by the first VC whose head is due
\* and has no credit.
SrcReadyVcsBlocking(s, credit, current_cycle) ==
  {v \in DOMAIN s.data_to_send :
     /\ s.data_to_send[v] # <<>>
     /\ Head(s.data_to_send[v]).cycle <= current_cycle
     /\ SrcHasCredit(credit[v])
     /\ \A u \in 1..(v - 1) :
          ~(/\ s.data_to_send[u] # <<>>
            /\ Head(s.data_to_send[u]).cycle <= current_cycle
            /\ ~SrcHasCredit(credit[u]))}

\* The VCs (1-based) the send loop would send from; the loop takes the
\* first and breaks.
SrcReadyVcs(s, credit, current_cycle) ==
  {v \in DOMAIN s.data_to_send :
     /\ s.data_to_send[v] # <<>>
     /\ Head(s.data_to_send[v]).cycle <= current_cycle
     /\ SrcHasCredit(credit[v])}

Min(set) == CHOOSE x \in set : \A y \in set : x <= y

SrcTryForwardPropagation(S, i) ==
  LET s      == S.src[i]
      c      == S.net.srcs[i].sink_connection_index
      credit == SrcApplyCreditUpdate(s.credit, s.credit_update)
      ready  == SrcReadyVcs(s, credit, S.cycle)
  IN IF ready # {}
     THEN LET v == Min(ready)
              phit == [Head(s.data_to_send[v]).phit EXCEPT
                         !.vc = v - 1, !.valid = TRUE]
          IN [S EXCEPT
                 !.conn[c].forward_channels = TimedPhit(S.cycle, phit),
                 !.src[i].credit = [credit EXCEPT ![v] = @ - 1],
                 !.src[i].data_to_send[v] = Tail(@),
                 !.src[i].forward_propagated_cycle = S.cycle,
                 !.hist.src_sent[i][v] = @ + 1,
                 !.hist.writes[c] = @ + 1,
                 !.hist.sends = @ \cup
                    {[kind |-> "src", comp |-> i, port |-> 1, vc |-> v,
                      before |-> credit[v]]},
                 !.ret = TRUE]
     ELSE [S EXCEPT
                 !.conn[c].forward_channels =
                    TimedPhit(S.cycle, DataPhit(0, FALSE, 0, 0)),
                 !.src[i].credit = credit,
                 !.src[i].forward_propagated_cycle = S.cycle,
                 !.ret = TRUE]

\* One credit update as captured from a reverse channel.
\* CapturedCredit with the two branches swapped.
CapturedCreditInverted(possible_credit) ==
  IF possible_credit.phit.valid THEN 0 ELSE possible_credit.phit.data

CapturedCredit(possible_credit) ==
  IF possible_credit.phit.valid THEN possible_credit.phit.data ELSE 0

\* SimNetworkInterfaceSrc::TryReversePropagation.
SrcTryReversePropagation(S, i) ==
  LET s   == S.src[i]
      rev == S.conn[S.net.srcs[i].sink_connection_index].reverse_channels
      arrived  == {v \in DOMAIN s.credit_update : rev[v].cycle = S.cycle}
      captured == {v \in arrived : s.credit_update[v].cycle # S.cycle}
      done == Cardinality(arrived) = Len(s.credit_update)
  IN [S EXCEPT
        !.src[i].credit_update =
           [v \in DOMAIN @ |->
              IF v \in captured
              THEN CreditState(S.cycle, CapturedCredit(rev[v]))
              ELSE @[v]],
        !.src[i].reverse_propagated_cycle = IF done THEN S.cycle ELSE @,
        !.hist.src_recv[i] =
           [v \in DOMAIN @ |->
              IF v \in captured THEN @[v] + CapturedCredit(rev[v])
              ELSE @[v]],
        !.ret = done]

\* SendPhitAtTime with the test of the VC index off by one.
SendPhitAtTimeInclusive(S, i, phit) ==
  IF phit.phit.vc >= 0 /\ phit.phit.vc <= Len(S.src[i].data_to_send)
  THEN [S EXCEPT !.src[i].data_to_send[phit.phit.vc + 1] = Append(@, phit),
                 !.ret = TRUE]
  ELSE [S EXCEPT !.ret = FALSE]

\* SimNetworkInterfaceSrc::SendPhitAtTime on source i; ret is TRUE for Ok
\* and FALSE for OutOfRange.
SendPhitAtTimeImpl(S, i, phit) ==
  IF phit.phit.vc >= 0 /\ phit.phit.vc < Len(S.src[i].data_to_send)
  THEN [S EXCEPT !.src[i].data_to_send[phit.phit.vc + 1] = Append(@, phit),
                 !.ret = TRUE]
  ELSE [S EXCEPT !.ret = FALSE]

\* ------------------------------------------------- SimNetworkInterfaceSink
\* SinkReverseLane without the full grant of cycle 0.
SinkReverseLaneNoGrant(current_cycle, lane, max_queue_size) ==
  IF lane.cycle # current_cycle
  THEN TimedPhit(current_cycle, MetadataPhit(0, FALSE))
  ELSE lane

\* SinkReverseLane without the test of the lane's stamp: after cycle 0 every
\* lane is overwritten with a bubble.
SinkReverseLaneOverwrite(current_cycle, lane, max_queue_size) ==
  IF current_cycle = 0
  THEN TimedPhit(current_cycle, MetadataPhit(max_queue_size, TRUE))
  ELSE TimedPhit(current_cycle, MetadataPhit(0, FALSE))

\* SinkReverseLane with a depth of 0 granted as 1.
SinkReverseLaneMinOne(current_cycle, lane, max_queue_size) ==
  IF current_cycle = 0
  THEN TimedPhit(current_cycle,
         MetadataPhit(IF max_queue_size = 0 THEN 1 ELSE max_queue_size, TRUE))
  ELSE IF lane.cycle # current_cycle
       THEN TimedPhit(current_cycle, MetadataPhit(0, FALSE))
       ELSE lane

\* The per-VC loops that close the forward propagation of a sink: the full
\* grant in cycle 0, a bubble on every lane not written in a later cycle.
SinkReverseLane(current_cycle, lane, max_queue_size) ==
  IF current_cycle = 0
  THEN TimedPhit(current_cycle, MetadataPhit(max_queue_size, TRUE))
  ELSE IF lane.cycle # current_cycle
       THEN TimedPhit(current_cycle, MetadataPhit(0, FALSE))
       ELSE lane

\* SinkCreditReturn with no credit sent back.
SinkCreditReturnNone(rev, valid, vc, current_cycle) == rev

\* "Send one credit back" for a valid phit on VC vc (0-based).
SinkCreditReturn(rev, valid, vc, current_cycle) ==
  IF valid
  THEN [rev EXCEPT ![vc + 1] = TimedPhit(current_cycle, MetadataPhit(1, TRUE))]
  ELSE rev

\* input_buffers_[vc].max_queue_size of sink i, vc 1-based: the sink has one
\* buffer per VC of its port, and the read of a buffer it does not have is
\* undefined.
SinkMaxQueueSize(S, i, vc) ==
  IF vc \in DOMAIN S.net.sinks[i].depth
  THEN S.net.sinks[i].depth[vc]
  ELSE S.undef.value

\* The reads of input_buffers_ past its end in the loop of cycle 0, which
\* runs over the reverse channels of the connection.
SinkOutOfRange(S, i) ==
  IF S.cycle = 0
  THEN {[kind |-> "sink", i |-> i, port |-> 1, vc |-> vc - 1] :
          vc \in DOMAIN S.conn[S.net.sinks[i].src_connection_index].reverse_channels
                   \ DOMAIN S.net.sinks[i].depth}
  ELSE {}

SinkTryForwardPropagation(S, i) ==
  LET p   == S.net.sinks[i]
      c   == p.src_connection_index
      src == S.conn[c]
  IN IF src.forward_channels.cycle # S.cycle
     THEN [S EXCEPT !.ret = FALSE]
     ELSE LET valid == src.forward_channels.phit.valid
              rev1  == SinkCreditReturn(src.reverse_channels, valid,
                                        src.forward_channels.phit.vc, S.cycle)
          IN [S EXCEPT
                 !.sink[i].received_traffic =
                    IF valid
                    THEN Append(@, TimedPhit(S.cycle, src.forward_channels.phit))
                    ELSE @,
                 !.conn[c].reverse_channels =
                    [v \in DOMAIN rev1 |->
                       SinkReverseLane(S.cycle, rev1[v],
                                       SinkMaxQueueSize(S, i, v))],
                 !.hist.out_of_range = @ \cup SinkOutOfRange(S, i),
                 !.fault = @ \/ (S.undef.fault /\ SinkOutOfRange(S, i) # {}),
                 !.ret = TRUE]

\* SimNetworkInterfaceSink does not override TryReversePropagation: the
\* base class's always succeeds.
SinkTryReversePropagation(S, i) == [S EXCEPT !.ret = TRUE]

\* ------------------------------------------------ SimInputBufferedVCRouter
\* GetDestinationPortIndexAndVcIndex: the routing table's answer for a phit
\* at the head of (input port i, vc), i 1-based, vc 0-based.
GetDestinationPortIndexAndVcIndex(S, r, i, vc, destination_index) ==
  S.net.routers[r].route[<<i, vc, destination_index>>]

\* The status of that answer: the table has an entry for the input and the
\* destination (GetRouterOutputPortByIndex), and the port it names is an
\* output port of the router (GetPortIndex).
RoutingStatusOk(S, r, i, vc, destination_index) ==
  /\ <<i, vc, destination_index>> \in DOMAIN S.net.routers[r].route
  /\ S.net.routers[r].route[<<i, vc, destination_index>>].port_index
       \in DOMAIN S.net.routers[r].outputs

\* RouterApplyCreditUpdate without the test of internal_propagated_cycle_.
RouterApplyCreditUpdateEveryAttempt(rt, current_cycle) ==
  [rt EXCEPT
     !.credit = [o \in DOMAIN @ |-> [v \in DOMAIN @[o] |->
                   IF rt.credit_update[o][v].credit > 0
                   THEN @[o][v] + rt.credit_update[o][v].credit
                   ELSE @[o][v]]],
     !.internal_propagated_cycle = current_cycle]

\* "Update credits (for output ports)": done once per cycle, guarded by
\* internal_propagated_cycle_.
RouterApplyCreditUpdate(rt, current_cycle) ==
  IF rt.internal_propagated_cycle # current_cycle
  THEN [rt EXCEPT
          !.credit = [o \in DOMAIN @ |-> [v \in DOMAIN @[o] |->
                        IF rt.credit_update[o][v].credit > 0
                        THEN @[o][v] + rt.credit_update[o][v].credit
                        ELSE @[o][v]]],
          !.internal_propagated_cycle = current_cycle]
  ELSE rt

\* RouterCanPropagateForward without the test of the inputs' stamps.
RouterCanPropagateAlways(S, r) == TRUE

\* "See if we can propagate forward": every input stamped this cycle.
RouterCanPropagateForward(S, r) ==
  \A i \in DOMAIN S.net.routers[r].inputs :
     S.conn[S.net.routers[r].inputs[i]].forward_channels.cycle = S.cycle

\* RouterResetCreditToSend with the credits to send left as they are.
RouterResetCreditToSendNever(S, r) == S

\* "Reset credits to send on reverse channel to 0."
RouterResetCreditToSend(S, r) ==
  [S EXCEPT !.router[r].input_credit_to_send =
     [i \in DOMAIN @ |-> [v \in DOMAIN @[i] |-> 0]]]

\* RouterIngest with a valid input phit pushed twice.
RouterIngestTwice(S, r) ==
  [S EXCEPT !.router[r].input_buffers =
     [i \in DOMAIN @ |->
        LET in == S.conn[S.net.routers[r].inputs[i]].forward_channels.phit
        IN IF in.valid
           THEN [@[i] EXCEPT ![in.vc + 1] = Append(Append(@, in), in)]
           ELSE @[i]]]

\* The ingest loop: a valid input phit is pushed onto its input buffer.
RouterIngest(S, r) ==
  [S EXCEPT !.router[r].input_buffers =
     [i \in DOMAIN @ |->
        LET in == S.conn[S.net.routers[r].inputs[i]].forward_channels.phit
        IN IF in.valid
           THEN [@[i] EXCEPT ![in.vc + 1] = Append(@, in)]
           ELSE @[i]]]

\* RouterOutputTaken with the check left out.
RouterOutputNeverTaken(output_state, current_cycle) == FALSE

\* "Check that no other port has already used the output port".
RouterOutputTaken(output_state, current_cycle) ==
  output_state.forward_channels.cycle = current_cycle

\* RouterLacksCredit with the test weakened to < 0.
RouterLacksCreditBelowZero(credit) == credit < 0

\* "Now see if we have sufficient credits": if (credit <= 0) continue.
RouterLacksCredit(credit) == credit <= 0

\* RouterArbitrateOne with the VCs of an input port sharing one head of
\* line: a head is passed over while a lower VC of its input port holds a
\* phit.
RouterArbitrateOneHeadOfLine(S, r, vc, i) ==
  LET rt == S.router[r]
  IN IF S.abort THEN S
     ELSE IF vc > Len(rt.input_buffers[i]) THEN S
     ELSE IF rt.input_buffers[i][vc] = <<>> THEN S
     ELSE IF \E u \in 1..(vc - 1) : rt.input_buffers[i][u] # <<>> THEN S
     ELSE IF ~RoutingStatusOk(S, r, i, vc - 1,
                              Head(rt.input_buffers[i][vc]).destination_index)
     THEN [S EXCEPT !.abort = TRUE, !.hist.route_failed = TRUE]
     ELSE
       LET phit   == Head(rt.input_buffers[i][vc])
           output == GetDestinationPortIndexAndVcIndex(
                        S, r, i, vc - 1, phit.destination_index)
           o      == output.port_index
           ov     == output.vc_index + 1
           oc     == S.net.routers[r].outputs[o]
       IN IF RouterLacksCredit(rt.credit[o][ov]) THEN S
          ELSE IF RouterOutputTaken(S.conn[oc], S.cycle) THEN S
          ELSE [S EXCEPT
                  !.conn[oc].forward_channels =
                     TimedPhit(S.cycle,
                       [phit EXCEPT !.valid = TRUE, !.vc = output.vc_index]),
                  !.router[r].credit[o][ov] = @ - 1,
                  !.router[r].input_credit_to_send[i][vc] = @ + 1,
                  !.router[r].input_buffers[i][vc] = Tail(@),
                  !.hist.rtr_sent[r][o][ov] = @ + 1,
                  !.hist.writes[oc] = @ + 1,
                  !.hist.sends = @ \cup
                     {[kind |-> "router", comp |-> r, port |-> o, vc |-> ov,
                       before |-> rt.credit[o][ov]]}]

\* One iteration of the fixed-priority loops, for (vc, i), vc and i 1-based.
RouterArbitrateOne(S, r, vc, i) ==
  LET rt == S.router[r]
  IN IF S.abort THEN S
     ELSE IF vc > Len(rt.input_buffers[i]) THEN S
     ELSE IF rt.input_buffers[i][vc] = <<>> THEN S
     ELSE IF ~RoutingStatusOk(S, r, i, vc - 1,
                              Head(rt.input_buffers[i][vc]).destination_index)
     THEN [S EXCEPT !.abort = TRUE, !.hist.route_failed = TRUE]
     ELSE
       LET phit   == Head(rt.input_buffers[i][vc])
           output == GetDestinationPortIndexAndVcIndex(
                        S, r, i, vc - 1, phit.destination_index)
           o      == output.port_index
           ov     == output.vc_index + 1
           oc     == S.net.routers[r].outputs[o]
       IN IF RouterLacksCredit(rt.credit[o][ov]) THEN S
          ELSE IF RouterOutputTaken(S.conn[oc], S.cycle) THEN S
          ELSE [S EXCEPT
                  !.conn[oc].forward_channels =
                     TimedPhit(S.cycle,
                       [phit EXCEPT !.valid = TRUE, !.vc = output.vc_index]),
                  !.router[r].credit[o][ov] = @ - 1,
                  !.router[r].input_credit_to_send[i][vc] = @ + 1,
                  !.router[r].input_buffers[i][vc] = Tail(@),
                  !.hist.rtr_sent[r][o][ov] = @ + 1,
                  !.hist.writes[oc] = @ + 1,
                  !.hist.sends = @ \cup
                     {[kind |-> "router", comp |-> r, port |-> o, vc |-> ov,
                       before |-> rt.credit[o][ov]]}]

\* RouterArbitrate with the input ports taken from the highest index down.
RECURSIVE RouterArbitrateDescending(_, _, _, _)
RouterArbitrateDescending(S, r, vc, i) ==
  IF vc > MaxVc(S.net.routers[r]) THEN S
  ELSE IF i > Len(S.net.routers[r].inputs)
       THEN RouterArbitrateDescending(S, r, vc + 1, 1)
       ELSE RouterArbitrateDescending(
              RouterArbitrateOne(S, r, vc,
                                 Len(S.net.routers[r].inputs) + 1 - i),
              r, vc, i + 1)

\* RouterArbitrate with the loops exchanged: input port outermost, vc
\* innermost (vc is the input port and i the VC of the iteration).
RECURSIVE RouterArbitrateInputMajor(_, _, _, _)
RouterArbitrateInputMajor(S, r, vc, i) ==
  IF vc > Len(S.net.routers[r].inputs) THEN S
  ELSE IF i > MaxVc(S.net.routers[r])
       THEN RouterArbitrateInputMajor(S, r, vc + 1, 1)
       ELSE RouterArbitrateInputMajor(RouterArbitrateOne(S, r, i, vc),
                                      r, vc, i + 1)

\* The fixed-priority loops: vc outermost, input port innermost.
RECURSIVE RouterArbitrate(_, _, _, _)
RouterArbitrate(S, r, vc, i) ==
  IF vc > MaxVc(S.net.routers[r]) THEN S
  ELSE IF i > Len(S.net.routers[r].inputs) THEN RouterArbitrate(S, r, vc + 1, 1)
  ELSE RouterArbitrate(RouterArbitrateOne(S, r, vc, i), r, vc, i + 1)

\* "Now put bubbles in output ports that couldn't send data."
RouterBubbleFill(S, r) ==
  [S EXCEPT !.conn =
     [c \in DOMAIN @ |->
        IF /\ c \in Range(S.net.routers[r].outputs)
           /\ @[c].forward_channels.cycle # S.cycle
        THEN [@[c] EXCEPT !.forward_channels =
                TimedPhit(S.cycle, DataPhit(0, FALSE, 0, 0))]
        ELSE @[c]]]

\* "forward_propagated_cycle_ = current_cycle; return true;"
RouterForwardDone(S, r) ==
  [S EXCEPT !.router[r].forward_propagated_cycle = S.cycle, !.ret = TRUE]

\* RouterForwardGated with the test of the inputs made after the reset of
\* the credits to send and the ingest.
RouterForwardGatedLate(S, r) ==
  IF ~RouterCanPropagateForward(S, r)
  THEN [RouterIngest(RouterResetCreditToSend(S, r), r) EXCEPT !.ret = FALSE]
  ELSE RouterForwardDone(
         RouterBubbleFill(
           RouterArbitrate(
             RouterIngest(RouterResetCreditToSend(S, r), r), r, 1, 1), r), r)

\* SimInputBufferedVCRouter::TryForwardPropagation once the credits have
\* been updated.
RouterForwardGated(S, r) ==
  IF ~RouterCanPropagateForward(S, r)
  THEN [S EXCEPT !.ret = FALSE]
  ELSE RouterForwardDone(
         RouterBubbleFill(
           RouterArbitrate(
             RouterIngest(RouterResetCreditToSend(S, r), r), r, 1, 1), r), r)

RouterTryForwardPropagation(S, r) ==
  RouterForwardGated(
    [S EXCEPT !.router[r] = RouterApplyCreditUpdate(@, S.cycle)], r)

\* "Send credit upstream": the phit published on (input i, vc).
RouterCreditToPublish(current_cycle, max_queue_size, input_credit_to_send) ==
  IF current_cycle = 0
  THEN MetadataPhit(max_queue_size, TRUE)
  ELSE MetadataPhit(input_credit_to_send, TRUE)

\* input_buffers_[i][vc].max_queue_size and input_credit_to_send_[i][vc] of
\* router r, i and vc 1-based: both vectors have one element per VC of the
\* input port, and the read of an element they do not have is undefined.
RouterMaxQueueSize(S, r, i, vc) ==
  IF vc \in DOMAIN S.net.routers[r].in_depth[i]
  THEN S.net.routers[r].in_depth[i][vc]
  ELSE S.undef.value

RouterInputCreditToSend(S, r, i, vc) ==
  IF vc \in DOMAIN S.router[r].input_credit_to_send[i]
  THEN S.router[r].input_credit_to_send[i][vc]
  ELSE S.undef.value

\* The reads past the end of input_buffers_[i] (cycle 0) or of
\* input_credit_to_send_[i] (later cycles) in the "send credit upstream"
\* loop, which runs over the reverse channels of the input connection.
RouterOutOfRange(S, r) ==
  UNION {{[kind |-> "router", i |-> r, port |-> i, vc |-> vc - 1] :
            vc \in DOMAIN S.conn[S.net.routers[r].inputs[i]].reverse_channels
                     \ DOMAIN S.router[r].input_credit_to_send[i]} :
         i \in DOMAIN S.net.routers[r].inputs}

RouterSendCreditUpstream(S, r) ==
  LET p == S.net.routers[r]
  IN [S EXCEPT !.conn =
        [c \in DOMAIN @ |->
           IF \E i \in DOMAIN p.inputs : p.inputs[i] = c
           THEN LET i == CHOOSE i \in DOMAIN p.inputs : p.inputs[i] = c
                IN [@[c] EXCEPT !.reverse_channels =
                      [v \in DOMAIN @ |->
                         TimedPhit(S.cycle,
                           RouterCreditToPublish(S.cycle,
                             RouterMaxQueueSize(S, r, i, v),
                             RouterInputCreditToSend(S, r, i, v)))]]
           ELSE @[c]],
        !.hist.out_of_range = @ \cup RouterOutOfRange(S, r),
        !.fault = @ \/ (S.undef.fault /\ RouterOutOfRange(S, r) # {})]

\* "Receive credit from downstream."
RouterReceiveCredit(S, r) ==
  LET rt  == S.router[r]
      rev(o) == S.conn[S.net.routers[r].outputs[o]].reverse_channels
      keys     == UNION {{<<o, v>> : v \in DOMAIN rt.credit_update[o]} :
                            o \in DOMAIN rt.credit_update}
      arrived  == {k \in keys : rev(k[1])[k[2]].cycle = S.cycle}
      captured == {k \in arrived :
                     rt.credit_update[k[1]][k[2]].cycle # S.cycle}
  IN [S EXCEPT
        !.router[r].credit_update =
           [o \in DOMAIN @ |-> [v \in DOMAIN @[o] |->
              IF <<o, v>> \in captured
              THEN CreditState(S.cycle, CapturedCredit(rev(o)[v]))
              ELSE @[o][v]]],
        !.hist.rtr_recv[r] =
           [o \in DOMAIN @ |-> [v \in DOMAIN @[o] |->
              IF <<o, v>> \in captured
              THEN @[o][v] + CapturedCredit(rev(o)[v])
              ELSE @[o][v]]],
        !.ret = (arrived = keys)]

\* RouterTryReversePropagation without the test of forward_propagated_cycle_.
RouterTryReverseUnguarded(S, r) ==
  RouterReceiveCredit(RouterSendCreditUpstream(S, r), r)

RouterTryReversePropagation(S, r) ==
  IF S.router[r].forward_propagated_cycle # S.cycle
  THEN [S EXCEPT !.ret = FALSE]
  ELSE RouterReceiveCredit(RouterSendCreditUpstream(S, r), r)

\* ------------------------------------------------- SimNetworkComponentBase
\* The virtual calls of the base class's Tick.
TryForwardPropagation(S, kind, i) ==
  CASE kind = "src"    -> SrcTryForwardPropagation(S, i)
    [] kind = "link"   -> LinkTryForwardPropagation(S, i)
    [] kind = "router" -> RouterTryForwardPropagation(S, i)
    [] kind = "sink"   -> SinkTryForwardPropagation(S, i)

TryReversePropagation(S, kind, i) ==
  CASE kind = "src"    -> SrcTryReversePropagation(S, i)
    [] kind = "link"   -> LinkTryReversePropagation(S, i)
    [] kind = "router" -> RouterTryReversePropagation(S, i)
    [] kind = "sink"   -> SinkTryReversePropagation(S, i)

\* NeedsPropagation with the stamps of the component ignored.
NeedsPropagationAlways(propagated_cycle, cycle) == TRUE

\* if (forward_propagated_cycle_ != cycle) / if (reverse_propagated_cycle_ != cycle)
NeedsPropagation(propagated_cycle, cycle) == propagated_cycle # cycle

\* AfterReverse with the value returned by TryReversePropagation ignored.
AfterReverseUnchecked(T, kind, i) ==
  [T EXCEPT ![kind][i].reverse_propagated_cycle = T.cycle,
            !.hist.tick[kind][i].rev_ok = @ + 1]

\* if (TryForwardPropagation(simulator)) { forward_propagated_cycle_ = cycle; }
\* else { converged = false; }
\* AfterForward with forward_propagated_cycle_ left as it was.
AfterForwardNoStamp(T, kind, i) ==
  IF T.ret
  THEN [T EXCEPT !.hist.tick[kind][i].fwd_ok = @ + 1]
  ELSE [T EXCEPT !.conv = FALSE]

\* The history counts the successes of each phase in tick[kind][i].
AfterForward(T, kind, i) ==
  IF T.ret
  THEN [T EXCEPT ![kind][i].forward_propagated_cycle = T.cycle,
                 !.hist.tick[kind][i].fwd_ok = @ + 1]
  ELSE [T EXCEPT !.conv = FALSE]

AfterReverse(T, kind, i) ==
  IF T.ret
  THEN [T EXCEPT ![kind][i].reverse_propagated_cycle = T.cycle,
                 !.hist.tick[kind][i].rev_ok = @ + 1]
  ELSE [T EXCEPT !.conv = FALSE]

\* The history notes in retried an attempt of a phase that has succeeded
\* before in the cycle.
ForwardPhase(S, kind, i) ==
  IF NeedsPropagation(S[kind][i].forward_propagated_cycle, S.cycle)
  THEN AfterForward(
         TryForwardPropagation(
           [S EXCEPT !.hist.tick[kind][i].retried =
                        @ \/ S.hist.tick[kind][i].fwd_ok > 0], kind, i),
         kind, i)
  ELSE S

ReversePhase(S, kind, i) ==
  IF NeedsPropagation(S[kind][i].reverse_propagated_cycle, S.cycle)
  THEN AfterReverse(
         TryReversePropagation(
           [S EXCEPT !.hist.tick[kind][i].retried =
                        @ \/ S.hist.tick[kind][i].rev_ok > 0], kind, i),
         kind, i)
  ELSE S

\* The channels of the connections that a Tick of component i of a kind has
\* changed: before / after are connections_ when the Tick starts and when
\* it returns; lane 0 is the forward channel of connection c, lane v the
\* reverse channel of VC v - 1.
WrittenLanes(before, after, kind, i) ==
  {[kind |-> kind, i |-> i, c |-> c, lane |-> 0] :
     c \in {d \in DOMAIN before :
              after[d].forward_channels # before[d].forward_channels}}
  \cup
  UNION {{[kind |-> kind, i |-> i, c |-> c, lane |-> v] :
            v \in {u \in DOMAIN before[c].reverse_channels :
                     after[c].reverse_channels[u] # before[c].reverse_channels[u]}} :
         c \in DOMAIN before}

\* "converged &= this_converged": conv is the flag of NocSimulator::Tick
\* before the component's Tick, T the state when it returns with its own
\* flag in T.conv; the history keeps the value returned and the channels
\* the Tick has changed.
ComponentTickResult(conv, before, T, kind, i) ==
  [T EXCEPT !.conv = conv /\ T.conv,
            !.hist.wrote = @ \cup WrittenLanes(before, T.conn, kind, i),
            !.hist.tick[kind][i].ticked = TRUE,
            !.hist.tick[kind][i].ret = T.conv]

\* SimNetworkComponentBase::Tick of component i of a kind, called by
\* NocSimulator::Tick.
ComponentTick(S, kind, i) ==
  ComponentTickResult(S.conv, S.conn,
    ReversePhase(ForwardPhase([S EXCEPT !.conv = TRUE], kind, i), kind, i),
    kind, i)

\* One of the four loops of NocSimulator::Tick: the components of a kind,
\* in index order, from component i on.
RECURSIVE TickKind(_, _, _)
TickKind(S, kind, i) ==
  IF i > Len(S[kind]) THEN S
  ELSE TickKind(ComponentTick(S, kind, i), kind, i + 1)

\* The order in which NocSimulator::Tick goes through the kinds.
TickOrder == <<"src", "link", "router", "sink">>

RECURSIVE TickFrom(_, _)
TickFrom(S, k) ==
  IF k > Len(TickOrder) THEN S
  ELSE TickFrom(TickKind(S, TickOrder[k], 1), k + 1)

\* NocSimulator::Tick; the value returned is conv.
Tick(S) == TickFrom([S EXCEPT !.conv = TRUE], 1)

\* ----------------------------------------------------------------- actions
\* What the read of a vector element past its end yields is undefined: the
\* process faults, or the read returns some value.  undef is the outcome for
\* the reads of one tick; no read of a network whose connections have as
\* many reverse channels as their downstream port has VCs is such a read.
NoUndefined == [fault |-> FALSE, value |-> 0]

SimState ==
  [net |-> net, cycle |-> cycle_, conn |-> connections_, src |-> srcs_,
   link |-> links_, router |-> routers_, sink |-> sinks_, hist |-> hist,
   ret |-> TRUE, conv |-> TRUE, abort |-> FALSE,
   undef |-> NoUndefined, fault |-> FALSE]

SetSimState(S) ==
  /\ cycle_' = S.cycle
  /\ connections_' = S.conn
  /\ srcs_' = S.src
  /\ links_' = S.link
  /\ routers_' = S.router
  /\ sinks_' = S.sink
  /\ hist' = S.hist

InitWith(n) ==
  /\ net = n
  /\ cycle_ = InitialCycle
  /\ connections_ = CreateSimulationObjects(n, InitialCycle).conn
  /\ srcs_ = CreateSimulationObjects(n, InitialCycle).src
  /\ links_ = CreateSimulationObjects(n, InitialCycle).link
  /\ routers_ = CreateSimulationObjects(n, InitialCycle).router
  /\ sinks_ = CreateSimulationObjects(n, InitialCycle).sink
  /\ hist = CreateSimulationObjects(n, InitialCycle).hist
  /\ pc = "idle"
  /\ nticks = 0
  /\ converged = FALSE
  /\ max_ticks = 0
  /\ status = "Ok"
  /\ lastOp = "Initialize"
  /\ injected = 0

Init == \E name \in NetworkNames : InitWith(Network(name))

\* The destination indices the routing table of a network knows.
Destinations(n) == IF n.name \in {"xbar", "deliverx"} THEN {0, 1} ELSE {0}

\* The outcome of SendPhitAtTime as the harness sees it; the history keeps
\* the phits that were accepted, in the order of the calls.
SendPhitAtTimeResult(T, i, phit) ==
  /\ SetSimState([T EXCEPT !.hist.accepted =
                    IF T.ret THEN Append(@, [src |-> i, phit |-> phit.phit])
                    ELSE @])
  /\ status' = IF T.ret THEN "Ok" ELSE "OutOfRange"
  /\ injected' = IF T.ret THEN injected + 1 ELSE injected

\* The harness injects a phit: SimNetworkInterfaceSrc::SendPhitAtTime.  The
\* k-th phit carries data 0xA + k.
SendPhitAtTime ==
  /\ pc = "idle"
  /\ injected < MaxInject
  /\ \E i \in DOMAIN srcs_ :
     \E vc \in 0..Len(srcs_[i].data_to_send),
        d \in Destinations(net), when \in {0, cycle_ + SendDelay} :
       SendPhitAtTimeResult(
         SendPhitAtTimeImpl(
           [SimState EXCEPT !.hist.call =
              [src |-> i,
               phit |-> TimedPhit(when, DataPhit(10 + injected, TRUE, vc, d))]],
           i, TimedPhit(when, DataPhit(10 + injected, TRUE, vc, d))),
         i, TimedPhit(when, DataPhit(10 + injected, TRUE, vc, d)))
  /\ lastOp' = "SendPhitAtTime"
  /\ UNCHANGED <<net, pc, nticks, converged, max_ticks>>

\* The last cycle the harness runs on a network.
LastCycle(n) ==
  CASE n.name = "starve"   -> StarveCycles
    [] n.name = "anyorder" -> AnyOrderCycles
    [] n.name \in {"chain", "xbar"} -> RouterCycles
    [] n.name \in {"link", "feed"} -> LinkCycles
    [] n.name \in {"deliver", "deliverx"} -> DeliveryCycles
    [] OTHER               -> MaxCycle

\* NextCycle with the counter left as it is.
NextCycleSame(cycle) == cycle

\* ++cycle_;
NextCycle(cycle) == cycle + 1

\* The history as a cycle begins.
BeginHistory ==
  [hist EXCEPT
     !.writes = [c \in DOMAIN @ |-> 0],
     !.sends = {},
     !.wrote = {},
     !.call = <<>>,
     !.tick = CreateTickHistory(net),
     !.pushes = CreateLaneHistory(net),
     !.entry_cycle = cycle_,
     !.prev_fwd = [c \in DOMAIN @ |->
                     connections_[c].forward_channels.phit]]

\* NocSimulator::RunCycle(max_ticks) up to the convergence loop, with
\* max_ticks one of limits and the history of the cycle starting as h.
RunCycleBeginWith(h, limits) ==
  /\ pc = "idle"
  /\ cycle_ < LastCycle(net)
  /\ \E mt \in limits : max_ticks' = mt
  /\ cycle_' = NextCycle(cycle_)
  /\ nticks' = 0
  /\ converged' = FALSE
  /\ hist' = h
  /\ pc' = "loop"
  /\ status' = "Running"
  /\ lastOp' = "RunCycle"
  /\ UNCHANGED <<net, connections_, srcs_, links_, routers_, sinks_, injected>>

RunCycleBegin == RunCycleBeginWith(BeginHistory, 1..MaxTicksArg)

\* converged = Tick();  A failed XLS_CHECK inside the tick ends the process:
\* RunCycle returns nothing, and the state of the simulator is left as it
\* was when the tick began (nothing reads it any more).
RunCycleTickResult(T) ==
  IF T.abort
  THEN /\ hist' = [hist EXCEPT !.route_failed = TRUE]
       /\ pc' = "aborted"
       /\ status' = "Aborted"
       /\ UNCHANGED <<cycle_, connections_, srcs_, links_, routers_, sinks_,
                      converged>>
  ELSE /\ SetSimState(T)
       /\ converged' = T.conv
       /\ UNCHANGED <<pc, status>>

\* One iteration of while (!converged) { converged = Tick(); ++nticks; }.
RunCycleTick ==
  /\ pc = "loop"
  /\ ~converged
  /\ nticks < TickCap
  /\ RunCycleTickResult(Tick(SimState))
  /\ nticks' = nticks + 1
  /\ UNCHANGED <<net, max_ticks, lastOp, injected>>

\* The status RunCycle returns once the loop has ended: the test of nticks
\* sits in the loop over the connections that follows the convergence loop.
RunCycleStatus(connection_count, ticks, limit) ==
  IF connection_count > 0 /\ ticks >= limit THEN "InternalError" ELSE "Ok"

RunCycleReturn ==
  /\ pc = "loop"
  /\ converged
  /\ status' = RunCycleStatus(Len(connections_), nticks, max_ticks)
  /\ pc' = IF status' = "Ok" THEN "idle" ELSE "failed"
  /\ UNCHANGED <<net, cycle_, connections_, srcs_, links_, routers_, sinks_,
                 hist, nticks, converged, max_ticks, lastOp, injected>>

ManualTickResult(T) ==
  IF T.abort
  THEN /\ hist' = [hist EXCEPT !.route_failed = TRUE]
       /\ pc' = "aborted"
       /\ status' = "Aborted"
       /\ UNCHANGED <<cycle_, connections_, srcs_, links_, routers_, sinks_>>
  ELSE /\ SetSimState(T)
       /\ status' = IF T.conv THEN "TickTrue" ELSE "TickFalse"
       /\ UNCHANGED pc

\* The harness calls NocSimulator::Tick itself, between two RunCycle calls.
ManualTick ==
  /\ pc = "idle"
  /\ ManualTickResult(Tick(SimState))
  /\ lastOp' = "Tick"
  /\ UNCHANGED <<net, nticks, converged, max_ticks, injected>>

Next ==
  \/ SendPhitAtTime
  \/ RunCycleBegin
  \/ RunCycleTick
  \/ RunCycleReturn
  \/ ManualTick

Spec == Init /\ [][Next]_vars

\* ------------------------------------------------- end-to-end scenario 1
\* A single source, a link with a 1-stage forward pipeline and a reverse
\* pipeline of 0 or 1 stages, and a single sink with one VC of depth 2.
\* The harness gives the source the phits 0xA, 0xB, 0xC on VC 0 with send
\* cycles 1, 2, 3, each before its send cycle begins, and runs the cycles.
ScenarioScript ==
  <<TimedPhit(1, DataPhit(10, TRUE, 0, 0)),
    TimedPhit(2, DataPhit(11, TRUE, 0, 0)),
    TimedPhit(3, DataPhit(12, TRUE, 0, 0))>>

InitScenario1 ==
  \E rev_stages \in {0, 1} :
    InitWith([NetLine(1, rev_stages, <<2>>) EXCEPT !.name = "scenario1"])

\* End-to-end scenario 2: two sources, a router with two inputs and one
\* output, a sink (depth 1 or 2); both sources are given a phit for cycle 1.
Scenario2Script ==
  <<[src |-> 1, phit |-> TimedPhit(1, DataPhit(10, TRUE, 0, 0))],
    [src |-> 2, phit |-> TimedPhit(1, DataPhit(11, TRUE, 0, 0))]>>

InitScenario2 ==
  \E sink_depth \in {1, 2} :
    InitWith([NetArbDirect(1, sink_depth) EXCEPT !.name = "scenario2"])

\* Credit starvation: a source, a link of 0 or 1 stages in each direction,
\* a sink with one VC of depth 1; the source is given 4 phits with send
\* cycles 1, 2, 3, 4.
StarveScript ==
  [k \in 1..4 |->
     [src |-> 1, phit |-> TimedPhit(k, DataPhit(9 + k, TRUE, 0, 0))]]

InitStarve ==
  \E fwd_stages \in {0, 1} : \E rev_stages \in {0, 1} :
    InitWith([NetLine(fwd_stages, rev_stages, <<1>>) EXCEPT !.name = "starve"])

\* The calls of SendPhitAtTime a scenario makes, in order.
Script(name) ==
  CASE name = "scenario2" -> Scenario2Script
    [] name = "starve"    -> StarveScript
    [] OTHER -> [k \in DOMAIN ScenarioScript |->
                   [src |-> 1, phit |-> ScenarioScript[k]]]

SendScripted ==
  /\ pc = "idle"
  /\ injected < Len(Script(net.name))
  /\ cycle_ < Script(net.name)[injected + 1].phit.cycle
  /\ SendPhitAtTimeResult(
       SendPhitAtTimeImpl(SimState, Script(net.name)[injected + 1].src,
                          Script(net.name)[injected + 1].phit),
       Script(net.name)[injected + 1].src, Script(net.name)[injected + 1].phit)
  /\ lastOp' = "SendPhitAtTime"
  /\ UNCHANGED <<net, pc, nticks, converged, max_ticks>>

NextScenario1 ==
  \/ SendScripted
  \/ RunCycleBegin
  \/ RunCycleTick
  \/ RunCycleReturn

SpecScenario1 == InitScenario1 /\ [][NextScenario1]_vars

SpecScenario2 == InitScenario2 /\ [][NextScenario1]_vars

SpecStarve == InitStarve /\ [][NextScenario1]_vars

\* ------------------------------------------------------ router networks
\* The chain of two routers, and the crossbar with a first sink whose VC 0
\* has depth 0 or 1.
InitRouters ==
  \/ InitWith(NetChain)
  \/ \E sink_depth \in {0, 1} : InitWith(NetXbar(sink_depth))

\* The harness gives a source a phit that is due at once, on one of the
\* source's VCs and for one of the network's destinations.
SendPhitNow ==
  /\ pc = "idle"
  /\ injected < MaxInject
  /\ \E i \in DOMAIN srcs_ :
     \E vc \in 0..(Len(srcs_[i].data_to_send) - 1), d \in Destinations(net) :
       SendPhitAtTimeResult(
         SendPhitAtTimeImpl(
           SimState, i, TimedPhit(0, DataPhit(10 + injected, TRUE, vc, d))),
         i, TimedPhit(0, DataPhit(10 + injected, TRUE, vc, d)))
  /\ lastOp' = "SendPhitAtTime"
  /\ UNCHANGED <<net, pc, nticks, converged, max_ticks>>

\* RunCycle with a max_ticks no cycle of these networks reaches.
RunCycleBeginRouters == RunCycleBeginWith(BeginHistory, {TickCap})

NextRouters ==
  \/ SendPhitNow
  \/ RunCycleBeginRouters
  \/ RunCycleTick
  \/ RunCycleReturn

SpecRouters == InitRouters /\ [][NextRouters]_vars

\* --------------------------------------------------------- link pipelines
\* source -> link -> sink with 0 to MaxStages stages in each direction and
\* one VC of depth 2.
InitLink ==
  \E fwd_stages \in 0..MaxStages, rev_stages \in 0..MaxStages :
    InitWith([NetLine(fwd_stages, rev_stages, <<2>>) EXCEPT !.name = "link"])

SpecLink == InitLink /\ [][NextRouters]_vars

\* A source that feeds a router through a link of 0 or 1 stages each way,
\* the router's buffer of depth 1 or 2, before a sink that grants credit
\* (depth 1) or none (depth 0); and the chain of two routers.
InitCredit ==
  \/ \E fwd_stages \in {0, 1}, rev_stages \in {0, 1}, in_depth \in {1, 2},
        sink_depth \in {0, 1} :
        InitWith(NetFeed(fwd_stages, rev_stages, in_depth, sink_depth))
  \/ InitWith(NetChain)

SpecCredit == InitCredit /\ [][NextRouters]_vars

\* ------------------------------------------------- ports without VCs
\* Networks whose ports declare zero VCs: source -> link -> sink with links
\* of 0..MaxStages stages, and source -> router -> sink.
NetThroughZeroVc ==
  [NetThrough(0, 0) EXCEPT
     !.name = "zerovc",
     !.port_vc = <<0, 0>>,
     !.srcs[1].vc_count = 0,
     !.routers[1].in_depth = <<<<>>>>,
     !.routers[1].out_vc = <<0>>,
     !.sinks[1].depth = <<>>]

InitZeroVc ==
  \/ \E fwd_stages \in 0..MaxStages, rev_stages \in 0..MaxStages :
       InitWith([NetLine(fwd_stages, rev_stages, <<>>) EXCEPT !.name = "zerovc"])
  \/ InitWith(NetThroughZeroVc)

\* The outcomes of the reads past the end of a vector in one tick.
UndefinedReads ==
  {[fault |-> TRUE, value |-> 0]}
    \cup {[fault |-> FALSE, value |-> g] : g \in 0..MaxUndefined}

\* A tick in which a read past the end of a vector has faulted ends the
\* process; the history keeps the read.
RunCycleTickUndefinedResult(T) ==
  IF T.fault
  THEN /\ hist' = T.hist
       /\ pc' = "aborted"
       /\ status' = "Fault"
       /\ UNCHANGED <<cycle_, connections_, srcs_, links_, routers_, sinks_,
                      converged>>
  ELSE /\ SetSimState(T)
       /\ converged' = T.conv
       /\ UNCHANGED <<pc, status>>

\* One iteration of RunCycle's loop, with any outcome of the undefined reads
\* of the tick.
RunCycleTickUndefined ==
  /\ pc = "loop"
  /\ ~converged
  /\ nticks < TickCap
  /\ \E u \in UndefinedReads :
       RunCycleTickUndefinedResult(Tick([SimState EXCEPT !.undef = u]))
  /\ nticks' = nticks + 1
  /\ UNCHANGED <<net, max_ticks, lastOp, injected>>

NextZeroVc ==
  \/ SendPhitAtTime
  \/ RunCycleBegin
  \/ RunCycleTickUndefined
  \/ RunCycleReturn

SpecZeroVc == InitZeroVc /\ [][NextZeroVc]_vars

\* ------------------------------------------------------ eventual delivery
\* Networks without a forward loop, with a routing table that knows every
\* destination and buffers of depth >= 1: two sources that contend for one
\* router output, the chain of two routers, and the 2x2 router.
InitDelivery ==
  \/ InitWith([NetArb(1, 2) EXCEPT !.name = "deliver"])
  \/ InitWith([NetChain EXCEPT !.name = "deliver"])
  \/ InitWith([NetXbar(1) EXCEPT !.name = "deliverx"])

\* The harness injects only before cycle InjectBefore: finitely many phits.
SendPhitEarly ==
  /\ cycle_ < InjectBefore
  /\ SendPhitNow

NextDelivery ==
  \/ SendPhitEarly
  \/ RunCycleBeginRouters
  \/ RunCycleTick
  \/ RunCycleReturn

\* What RunCycleTick does to the loop counter: its guard and ++nticks.  No
\* other step of the harness changes nticks inside the loop, so a step of
\* NextDelivery is a RunCycleTick step exactly if it is one of these.
RunCycleTickStep ==
  /\ pc = "loop"
  /\ ~converged
  /\ nticks < TickCap
  /\ nticks' = nticks + 1

\* The harness keeps calling RunCycle (up to cycle DeliveryCycles), and a
\* call of RunCycle keeps running: its loop takes the next tick (a
\* RunCycleTick step, told by the loop counter) and the function returns
\* once the loop has ended.
SpecDelivery ==
  /\ InitDelivery
  /\ [][NextDelivery]_vars
  /\ WF_vars(RunCycleBeginRouters)
  /\ WF_nticks(RunCycleTickStep)
  /\ WF_vars(RunCycleReturn)

\* ------------------------------------------------ routing table scenario
\* source -> router -> sink, with a routing table that sends the phits of
\* the router's input to an output port the router does not have.
NetBadRoute ==
  [NetThrough(2, 2) EXCEPT
     !.name = "badroute",
     !.routers[1].route = [k \in {1} \X {0} \X {0} |->
                             [port_index |-> 2, vc_index |-> 0]]]

InitBadRoute == InitWith(NetBadRoute)

\* ------------------------------------------------------- any tick order
\* NocSimulator::Tick with its loops over the components run in some other
\* order: the components of the network, and the sequences that hold each
\* of them once.
Components(S) ==
  UNION {{<<kind, i>> : i \in DOMAIN S[kind]} : kind \in Range(TickOrder)}

Orders(S) ==
  {o \in [1..Cardinality(Components(S)) -> Components(S)] :
     \A a, b \in DOMAIN o : a # b => o[a] # o[b]}

RECURSIVE TickInOrderFrom(_, _, _)
TickInOrderFrom(S, order, k) ==
  IF k > Len(order) THEN S
  ELSE TickInOrderFrom(ComponentTick(S, order[k][1], order[k][2]), order, k + 1)

TickInOrder(S, order) == TickInOrderFrom([S EXCEPT !.conv = TRUE], order, 1)

\* The ticks a cycle may take when the order is free.
AnyOrderTickCap == 12

\* The simulator state proper of a threaded state.
Simulated(S) ==
  [conn |-> S.conn, src |-> S.src, link |-> S.link, router |-> S.router,
   sink |-> S.sink]

\* The convergence loop of RunCycle with NocSimulator::Tick's own order, run
\* from S for at most n ticks.
RECURSIVE ConvergeFrom(_, _)
ConvergeStep(T, n) == IF T.conv THEN T ELSE ConvergeFrom(T, n - 1)

ConvergeFrom(S, n) == IF n = 0 THEN S ELSE ConvergeStep(Tick(S), n)

\* RunCycle begins, with a max_ticks no order reaches; the history keeps the
\* state in which the cycle converges under NocSimulator::Tick's own order.
RunCycleBeginAnyOrder ==
  RunCycleBeginWith(
    [BeginHistory EXCEPT
       !.canon = Simulated(ConvergeFrom([SimState EXCEPT !.cycle = NextCycle(cycle_)],
                                        TickCap))],
    {AnyOrderTickCap + 1})

\* One iteration of the convergence loop, the components ticked in any order.
RunCycleTickAnyOrder ==
  /\ pc = "loop"
  /\ ~converged
  /\ nticks < AnyOrderTickCap
  /\ \E order \in Orders(SimState) :
       RunCycleTickResult(TickInOrder(SimState, order))
  /\ nticks' = nticks + 1
  /\ UNCHANGED <<net, max_ticks, lastOp, injected>>

NextAnyOrder ==
  \/ SendPhitAtTime
  \/ RunCycleBeginAnyOrder
  \/ RunCycleTickAnyOrder
  \/ RunCycleReturn

\* A source behind a link with two VCs, and two sources that meet in a
\* router.
InitAnyOrder ==
  \/ InitWith([Network("line0") EXCEPT !.name = "anyorder"])
  \/ InitWith([NetArbDirect(1, 2) EXCEPT !.name = "anyorder"])

SpecAnyOrder == InitAnyOrder /\ [][NextAnyOrder]_vars

\* ------------------------------------------------ CreateSimulationObjects
\* The components of a network in the order of NetworkManager's indices,
\* each <<kind, index within its kind>>; here sources, links, routers, sinks.
ComponentList(n) ==
  [k \in 1..Len(n.srcs) |-> <<"src", k>>]
    \o [k \in 1..Len(n.links) |-> <<"link", k>>]
    \o [k \in 1..Len(n.routers) |-> <<"router", k>>]
    \o [k \in 1..Len(n.sinks) |-> <<"sink", k>>]

\* s with x inserted so that it becomes element k.
InsertAt(s, k, x) == SubSeq(s, 1, k - 1) \o <<x>> \o SubSeq(s, k, Len(s))

\* The statuses a failed lookup of a port or of its parameters may carry
\* (NocParameters::GetPortParam and the lookups of the InitializeImpl
\* functions); XLS_ASSIGN_OR_RETURN hands them on as they are.
LookupErrors == {"NotFound", "InvalidArgument"}

\* A network as handed to CreateSimulationObjects: the network b with
\*   components      its components in index order (kind "none" is kNone),
\*   conn_status[c]  the status of the port lookup of CreateConnection,
\*   comp_status[k]  the status of the Create of component k.
CreationNet(b, components, conn_status, comp_status) ==
  [name |-> "create", port_vc |-> b.port_vc, srcs |-> b.srcs,
   links |-> b.links, routers |-> b.routers, sinks |-> b.sinks,
   components |-> components, conn_status |-> conn_status,
   comp_status |-> comp_status]

\* One status in a sequence of n: e at position k, Ok elsewhere (k = 0: Ok
\* everywhere).
StatusAt(n, k, e) == [j \in 1..n |-> IF j = k THEN e ELSE "Ok"]

\* The component lists CreateSimulationObjects may meet for the network b:
\* a kNone component somewhere or nowhere.
CreationComponents(b) ==
  {ComponentList(b)}
    \cup {InsertAt(ComponentList(b), at, <<"none", 0>>) :
            at \in 1..(Len(ComponentList(b)) + 1)}

\* The networks CreateSimulationObjects is called with: besides the kNone
\* component, a failing lookup in a connection, in a component, or in none.
CreationNets(b) ==
  UNION {{CreationNet(b, comps, StatusAt(Len(b.port_vc), c, e),
                      StatusAt(Len(comps), k, e)) :
            c \in 0..Len(b.port_vc), k \in 0..Len(comps), e \in LookupErrors} :
         comps \in CreationComponents(b)}

InitCreate ==
  /\ net \in CreationNets(Network("line1")) \cup CreationNets(Network("arb"))
             \cup CreationNets(NetLine(0, 0, <<>>))
  /\ cycle_ = InitialCycle
  /\ connections_ = <<>>
  /\ srcs_ = <<>>
  /\ links_ = <<>>
  /\ routers_ = <<>>
  /\ sinks_ = <<>>
  /\ hist = CreateHistory(net)
  /\ pc = "create_connections"
  /\ nticks = 0
  /\ converged = FALSE
  /\ max_ticks = 0
  /\ status = "Running"
  /\ lastOp = "CreateSimulationObjects"
  /\ injected = 0

\* CreateNetworkComponent with kNone taken for a kind that needs no object.
CreateNetworkComponentStatusLenient(kind, create_status) ==
  IF kind = "none" THEN "Ok" ELSE create_status

\* NocSimulator::CreateNetworkComponent: the status returned for a component
\* of a kind whose Create returns create_status.
CreateNetworkComponentStatus(kind, create_status) ==
  IF kind = "none" THEN "InternalError" ELSE create_status

\* One iteration of the loop over the connections: CreateConnection.
CreateConnectionStep ==
  /\ pc = "create_connections"
  /\ Len(connections_) < Len(net.port_vc)
  /\ IF net.conn_status[Len(connections_) + 1] = "Ok"
     THEN /\ connections_' =
               Append(connections_,
                      CreateConnection(cycle_, net.port_vc[Len(connections_) + 1]))
          /\ UNCHANGED <<pc, status>>
     ELSE /\ pc' = "create_failed"
          /\ status' = net.conn_status[Len(connections_) + 1]
          /\ UNCHANGED connections_
  /\ UNCHANGED <<net, cycle_, srcs_, links_, routers_, sinks_, hist, nticks,
                 converged, max_ticks, lastOp, injected>>

\* The number of simulation objects created so far.
Created == Len(srcs_) + Len(links_) + Len(routers_) + Len(sinks_)

\* The component vectors after the simulation object of component comp
\* (<<kind, index>>) has been pushed back.
PushComponent(comp) ==
  /\ srcs_' = IF comp[1] = "src"
              THEN Append(srcs_, CreateNetworkInterfaceSrc(cycle_, net.srcs[comp[2]]))
              ELSE srcs_
  /\ links_' = IF comp[1] = "link"
               THEN Append(links_, CreateLink(cycle_, net.links[comp[2]], connections_))
               ELSE links_
  /\ routers_' = IF comp[1] = "router"
                 THEN Append(routers_, CreateRouter(cycle_, net.routers[comp[2]]))
                 ELSE routers_
  /\ sinks_' = IF comp[1] = "sink"
               THEN Append(sinks_, CreateNetworkInterfaceSink(cycle_, net.sinks[comp[2]]))
               ELSE sinks_

\* One iteration of the loop over the components: CreateNetworkComponent.
\* hist.created counts the iterations that returned Ok.
CreateNetworkComponentStep ==
  /\ pc \in {"create_connections", "create_components"}
  /\ Len(connections_) = Len(net.port_vc)
  /\ hist.created < Len(net.components)
  /\ LET k == hist.created + 1
         st == CreateNetworkComponentStatus(net.components[k][1],
                                            net.comp_status[k])
     IN IF st = "Ok"
        THEN /\ PushComponent(net.components[k])
             /\ hist' = [hist EXCEPT !.created = k]
             /\ pc' = "create_components"
             /\ UNCHANGED status
        ELSE /\ pc' = "create_failed"
             /\ status' = st
             /\ UNCHANGED <<srcs_, links_, routers_, sinks_, hist>>
  /\ UNCHANGED <<net, cycle_, connections_, nticks, converged, max_ticks,
                 lastOp, injected>>

\* return absl::OkStatus(); at the end of CreateSimulationObjects.
CreateReturn ==
  /\ pc \in {"create_connections", "create_components"}
  /\ Len(connections_) = Len(net.port_vc)
  /\ hist.created = Len(net.components)
  /\ pc' = "idle"
  /\ status' = "Ok"
  /\ UNCHANGED <<net, cycle_, connections_, srcs_, links_, routers_, sinks_,
                 hist, nticks, converged, max_ticks, lastOp, injected>>

NextCreate ==
  \/ CreateConnectionStep
  \/ CreateNetworkComponentStep
  \/ CreateReturn

SpecCreate == InitCreate /\ [][NextCreate]_vars

\* ---------------------------------------------------- zero-depth buffers
\* Networks in which a VC of the buffer behind the source has depth 0: a
\* sink with VC 0 of depth 0 and VC 1 of depth 1 behind a link of 0 or 1
\* stages, and a router whose input VC has depth 0.
InitZeroDepth ==
  \/ \E stages \in {0, 1} :
       InitWith([NetLine(stages, stages, <<0, 1>>) EXCEPT !.name = "zerosink"])
  \/ InitWith([NetThrough(0, 2) EXCEPT !.name = "zerorouter"])

SpecZeroDepth == InitZeroDepth /\ [][Next]_vars

SpecBadRoute == InitBadRoute /\ [][Next]_vars

\* ------------------------------------------------------------ properties
Connections == DOMAIN connections_

\* "RunCycle has returned Ok and nothing was run since": the harness is
\* idle in a cycle >= 0 (a failed RunCycle leaves it in "failed").
AfterOk == pc = "idle" /\ cycle_ >= 0

\* C1: after a RunCycle that returned Ok for cycle k, the forward stamp and
\* every reverse stamp of every connection equal k.
C1_StampsAfterOk ==
  AfterOk =>
    \A c \in Connections :
      /\ connections_[c].forward_channels.cycle = cycle_
      /\ \A v \in DOMAIN connections_[c].reverse_channels :
           connections_[c].reverse_channels[v].cycle = cycle_

\* A cycle >= 2 has returned Ok with a valid phit on some connection.
C1_Witness ==
  /\ AfterOk /\ lastOp = "RunCycle" /\ status = "Ok" /\ cycle_ >= 2
  /\ \E c \in Connections : connections_[c].forward_channels.phit.valid

\* The credit counter a send of the current cycle was charged to.
CreditOf(e) ==
  IF e.kind = "src"
  THEN srcs_[e.comp].credit[e.vc]
  ELSE routers_[e.comp].credit[e.port][e.vc]

\* C2: every credit counter of every source and router is >= 0, and every
\* valid phit sent in the current cycle found its counter > 0 and left it
\* exactly one lower.
C2_CreditCoversSend ==
  /\ \A i \in DOMAIN srcs_ : \A v \in DOMAIN srcs_[i].credit :
       srcs_[i].credit[v] >= 0
  /\ \A r \in DOMAIN routers_ : \A o \in DOMAIN routers_[r].credit :
       \A v \in DOMAIN routers_[r].credit[o] : routers_[r].credit[o][v] >= 0
  /\ \A e \in hist.sends : e.before > 0 /\ CreditOf(e) = e.before - 1

\* A source and a router have both sent in the same cycle.
C2_Witness ==
  /\ \E e \in hist.sends : e.kind = "src"
  /\ \E e \in hist.sends : e.kind = "router" /\ e.before = 2

\* C3: the number of valid phits sent so far on a credit counter is at most
\* the initial credit plus the sum of the credit updates captured so far.
C3_CreditConservation ==
  /\ \A i \in DOMAIN srcs_ : \A v \in DOMAIN srcs_[i].credit :
       hist.src_sent[i][v] <= InitialCredit + hist.src_recv[i][v]
  /\ \A r \in DOMAIN routers_ : \A o \in DOMAIN routers_[r].credit :
       \A v \in DOMAIN routers_[r].credit[o] :
         hist.rtr_sent[r][o][v] <= InitialCredit + hist.rtr_recv[r][o][v]

\* A router has sent two phits on one output VC, and a source one.
C3_Witness ==
  /\ \E r \in DOMAIN routers_ : \E o \in DOMAIN routers_[r].credit :
       \E v \in DOMAIN routers_[r].credit[o] : hist.rtr_sent[r][o][v] = 2
  /\ \E i \in DOMAIN srcs_ : \E v \in DOMAIN srcs_[i].credit :
       hist.src_sent[i][v] = 1 /\ hist.src_recv[i][v] = 1

\* The sum of the first n elements of a sequence of numbers.
RECURSIVE SumTo(_, _)
SumTo(s, n) == IF n = 0 THEN 0 ELSE s[n] + SumTo(s, n - 1)

SeqSum(s) == SumTo(s, Len(s))

\* The phits a router popped from its input buffers in its last forward pass.
RECURSIVE SeqSeqSumTo(_, _)
SeqSeqSumTo(ss, n) ==
  IF n = 0 THEN 0 ELSE SeqSum(ss[n]) + SeqSeqSumTo(ss, n - 1)

RouterPopped(r) ==
  SeqSeqSumTo(routers_[r].input_credit_to_send,
              Len(routers_[r].input_credit_to_send))

\* The outputs of a router that carry a valid phit of the current cycle.
RouterValidOutputs(r) ==
  {o \in DOMAIN net.routers[r].outputs :
     LET f == connections_[net.routers[r].outputs[o]].forward_channels
     IN f.cycle = cycle_ /\ f.phit.valid}

\* C4: in every cycle each forward channel is written with valid = true at
\* most once, and a router that has done its forward pass has popped exactly
\* one phit per output that carries a valid phit: a candidate that lost an
\* output stays in its buffer.
C4_SingleWriter ==
  /\ \A c \in Connections : hist.writes[c] <= 1
  /\ \A r \in DOMAIN routers_ :
       routers_[r].forward_propagated_cycle = cycle_ =>
         RouterPopped(r) = Cardinality(RouterValidOutputs(r))

\* A router has sent one phit and kept the phit of another input.
C4_Witness ==
  \E r \in DOMAIN routers_ :
    /\ routers_[r].forward_propagated_cycle = cycle_
    /\ RouterValidOutputs(r) # {}
    /\ routers_[r].credit[1][1] > 0
    /\ \E i \in DOMAIN routers_[r].input_buffers :
         routers_[r].input_buffers[i][1] # <<>>

\* C5: RunCycle(max_ticks) executes at most max_ticks ticks: the counter of
\* the convergence loop never passes the argument.
C5_TicksWithinMaxTicks == nticks <= max_ticks

\* C6: RunCycle(max_ticks) returns Ok if and only if the components
\* converged using at most max_ticks ticks; a cycle that converges in
\* exactly max_ticks ticks succeeds.
C6_OkIffWithinMaxTicks ==
  (lastOp = "RunCycle" /\ pc \in {"idle", "failed"}) =>
    ((status = "Ok") <=> (nticks <= max_ticks))

\* C7: a call of NocSimulator::Tick made after RunCycle has returned Ok for
\* the current cycle returns true and changes nothing of the simulator: no
\* connection, source, link, router or sink state.
C7_IdempotentTick ==
  [][(ManualTick /\ AfterOk) => (status' = "TickTrue" /\ UNCHANGED simvars)]_vars

\* A manual Tick has returned in a cycle in which a source holds a phit it
\* may send later, a connection carries a valid phit and the sink has
\* logged one.
C7_Witness ==
  /\ lastOp = "Tick" /\ status = "TickTrue" /\ AfterOk /\ cycle_ >= 1
  /\ \E c \in Connections : connections_[c].forward_channels.phit.valid
  /\ \E i \in DOMAIN srcs_ : \E v \in DOMAIN srcs_[i].data_to_send :
       srcs_[i].data_to_send[v] # <<>>
  /\ \E i \in DOMAIN sinks_ : sinks_[i].received_traffic # <<>>

\* The phit of the initial grant for a VC of the given depth.
FullGrant(max_queue_size) == TimedPhit(0, MetadataPhit(max_queue_size, TRUE))

\* C8: every source starts with credit 0; in cycle 0 a sink that has done
\* its forward pass and a router that has done its reverse pass have
\* published on every VC reverse channel of each input connection a valid
\* credit phit carrying the full depth of that VC; no source has sent a
\* valid phit in cycle 0, nor before it has captured a grant.
C8_InitialGrant ==
  /\ cycle_ = InitialCycle =>
       \A i \in DOMAIN srcs_ : \A v \in DOMAIN srcs_[i].credit :
         srcs_[i].credit[v] = 0
  /\ cycle_ = 0 =>
       /\ \A i \in DOMAIN sinks_ :
            sinks_[i].forward_propagated_cycle = 0 =>
              \A v \in DOMAIN net.sinks[i].depth :
                connections_[net.sinks[i].src_connection_index]
                  .reverse_channels[v] = FullGrant(net.sinks[i].depth[v])
       /\ \A r \in DOMAIN routers_ :
            routers_[r].reverse_propagated_cycle = 0 =>
              \A i \in DOMAIN net.routers[r].inputs :
                \A v \in DOMAIN net.routers[r].in_depth[i] :
                  connections_[net.routers[r].inputs[i]].reverse_channels[v]
                    = FullGrant(net.routers[r].in_depth[i][v])
  /\ \A i \in DOMAIN srcs_ :
       /\ cycle_ <= 0 =>
            ~connections_[net.srcs[i].sink_connection_index]
               .forward_channels.phit.valid
       /\ \A v \in DOMAIN srcs_[i].credit :
            (cycle_ <= 0 \/ hist.src_recv[i][v] = 0) =>
              hist.src_sent[i][v] = 0

\* Cycle 0 has returned Ok in a network with a router and a sink, and a
\* source holds a phit that was ready in cycle 0.
C8_Witness ==
  /\ AfterOk /\ cycle_ = 0 /\ lastOp = "RunCycle"
  /\ routers_ # <<>> /\ sinks_ # <<>>
  /\ routers_[1].reverse_propagated_cycle = 0
  /\ sinks_[1].forward_propagated_cycle = 0
  /\ \E i \in DOMAIN srcs_ : \E v \in DOMAIN srcs_[i].data_to_send :
       /\ srcs_[i].data_to_send[v] # <<>>
       /\ Head(srcs_[i].data_to_send[v]).cycle = 0

\* The links whose forward pipeline has no stage.
ZeroStageLinks ==
  {l \in DOMAIN links_ : net.links[l].forward_pipeline_stages = 0}

\* C9 as stated: a link with stage_count = 0 induces one cycle of latency:
\* what its downstream connection carries in a cycle is what its upstream
\* connection carried in the cycle before.
C9_OneCycleLatency ==
  \A l \in ZeroStageLinks :
    links_[l].forward_propagated_cycle = cycle_ =>
      connections_[net.links[l].sink_connection_index].forward_channels.phit
        = hist.prev_fwd[net.links[l].src_connection_index]

\* C9 amended: a link with stage_count = 0 induces no latency: once it has
\* propagated forward in a cycle, its downstream connection carries the
\* phit its upstream connection carries in that same cycle.
C9_ZeroStageSameCycle ==
  \A l \in ZeroStageLinks :
    links_[l].forward_propagated_cycle = cycle_ =>
      connections_[net.links[l].sink_connection_index].forward_channels
        = connections_[net.links[l].src_connection_index].forward_channels

\* In cycle 1 the source has written a valid phit on the upstream connection
\* of a zero-stage link, and the link has propagated forward.
C9_Witness ==
  /\ cycle_ = 1
  /\ \E l \in ZeroStageLinks :
       /\ links_[l].forward_propagated_cycle = 1
       /\ connections_[net.links[l].src_connection_index]
            .forward_channels.phit.valid
       /\ hist.writes[net.links[l].src_connection_index] = 1

\* The reception log of sink 1 as (cycle, data) pairs.
SinkLog ==
  [k \in DOMAIN sinks_[1].received_traffic |->
     <<sinks_[1].received_traffic[k].cycle,
       sinks_[1].received_traffic[k].phit.data>>]

\* Scenario 1 has been run to the end: the three phits were handed over and
\* cycle 6 has returned Ok.
Scenario1Done ==
  net.name = "scenario1" /\ AfterOk /\ cycle_ = 6 /\ injected = 3

\* C10 as stated: the log of the sink after cycle 6 is
\* [(3, 0xA), (4, 0xB), (5, 0xC)].
C10_LogAsStated ==
  Scenario1Done => SinkLog = <<<<3, 10>>, <<4, 11>>, <<5, 12>>>>

\* C10 amended: with a 1-stage reverse pipeline the log of the sink after
\* cycle 6 is [(3, 0xA), (4, 0xB), (6, 0xC)] (0xC waits for the credit 0xA
\* gave back); with a 0-stage reverse pipeline it is
\* [(2, 0xA), (3, 0xB), (4, 0xC)].
C10_Scenario1Log ==
  Scenario1Done =>
    SinkLog = IF net.links[1].reverse_pipeline_stages = 1
              THEN <<<<3, 10>>, <<4, 11>>, <<6, 12>>>>
              ELSE <<<<2, 10>>, <<3, 11>>, <<4, 12>>>>

\* Scenario 1 has been run to the end with a 1-stage reverse pipeline.
C10_Witness ==
  /\ Scenario1Done
  /\ net.links[1].reverse_pipeline_stages = 1
  /\ Len(sinks_[1].received_traffic) = 3

\* The source of a line network has done its forward pass in the current
\* cycle and written a valid phit.
SrcTransmits ==
  /\ srcs_[1].forward_propagated_cycle = cycle_
  /\ connections_[net.srcs[1].sink_connection_index].forward_channels.phit.valid

\* The credit starvation scenario, with every phit handed to the source
\* before its send cycle, and the source past its forward pass.
StarveRunning ==
  /\ net.name = "starve"
  /\ cycle_ >= 0
  /\ srcs_[1].forward_propagated_cycle = cycle_
  /\ injected >= (IF cycle_ < 4 THEN cycle_ ELSE 4)

StarveSendCycles(fwd_stages, rev_stages) ==
  CASE fwd_stages = 1 /\ rev_stages = 0 -> {1, 3, 5, 7}
    [] fwd_stages = 0 /\ rev_stages = 0 -> {1, 2, 3, 4}
    [] fwd_stages = 0 /\ rev_stages = 1 -> {2, 4, 6, 8}
    [] fwd_stages = 1 /\ rev_stages = 1 -> {2, 5, 8, 11}

Scenario2Running == net.name = "scenario2" /\ injected = 2

C13_RoutingFailureReturnsError ==
  hist.route_failed => (pc = "failed" /\ status = "InternalError")

\* The connection at the far end of the link that starts at connection c,
\* or c itself when no link starts there.
EndConnection(c) ==
  IF \E l \in DOMAIN net.links : net.links[l].src_connection_index = c
  THEN net.links[CHOOSE l \in DOMAIN net.links :
                   net.links[l].src_connection_index = c].sink_connection_index
  ELSE c

\* max_queue_size of the input buffer of VC v (1-based) that connection c
\* ends in: a sink's or a router input's.
BufferDepth(c, v) ==
  IF \E k \in DOMAIN net.sinks : net.sinks[k].src_connection_index = c
  THEN net.sinks[CHOOSE k \in DOMAIN net.sinks :
                   net.sinks[k].src_connection_index = c].depth[v]
  ELSE LET r == CHOOSE r \in DOMAIN net.routers :
                  c \in Range(net.routers[r].inputs)
           i == CHOOSE i \in DOMAIN net.routers[r].inputs :
                  net.routers[r].inputs[i] = c
       IN net.routers[r].in_depth[i][v]

\* The (source, VC) pairs whose downstream buffer has depth 0.
ZeroDepthVcs ==
  {p \in UNION {{<<i, v>> : v \in DOMAIN srcs_[i].credit} : i \in DOMAIN srcs_} :
     BufferDepth(EndConnection(net.srcs[p[1]].sink_connection_index), p[2]) = 0}

\* C14: a source's credit for a VC whose downstream buffer has depth 0 is
\* always 0, and the source never sends a valid phit on that VC.
C14_ZeroDepthBlocks ==
  \A p \in ZeroDepthVcs :
    /\ srcs_[p[1]].credit[p[2]] = 0
    /\ hist.src_sent[p[1]][p[2]] = 0
    /\ LET f == connections_[net.srcs[p[1]].sink_connection_index]
                  .forward_channels.phit
       IN ~(f.valid /\ f.vc = p[2] - 1)

\* Three cycles after its send cycle a phit is still queued on a VC of depth
\* 0 behind a sink, and the source has sent on the other VC meanwhile.
C14_Witness ==
  /\ AfterOk /\ net.name = "zerosink"
  /\ \E p \in ZeroDepthVcs :
       /\ srcs_[p[1]].data_to_send[p[2]] # <<>>
       /\ Head(srcs_[p[1]].data_to_send[p[2]]).cycle + 3 <= cycle_
       /\ \E v \in DOMAIN srcs_[p[1]].credit : hist.src_sent[p[1]][v] > 0

\* The indices of sink i's log entries stamped with cycle k.
LoggedIn(i, k) ==
  {n \in DOMAIN sinks_[i].received_traffic :
     sinks_[i].received_traffic[n].cycle = k}

\* C15: a sink's log has at most one entry per cycle. Once a sink has done
\* its forward pass in a cycle k >= 1: if the phit on its upstream forward
\* channel is valid, the log has exactly one entry stamped k, which is that
\* phit, the reverse channel of the phit's VC holds a valid credit of 1
\* stamped k and every other reverse channel holds a bubble stamped k; if the
\* phit is not valid, the log has no entry stamped k and every reverse channel
\* holds a bubble stamped k.
C15_SinkReception ==
  \A i \in DOMAIN sinks_ :
    LET c == connections_[net.sinks[i].src_connection_index]
        f == c.forward_channels
    IN /\ \A k \in 0..cycle_ : Cardinality(LoggedIn(i, k)) <= 1
       /\ (sinks_[i].forward_propagated_cycle = cycle_ /\ cycle_ >= 1) =>
            /\ f.cycle = cycle_
            /\ Cardinality(LoggedIn(i, cycle_)) = IF f.phit.valid THEN 1 ELSE 0
            /\ f.phit.valid =>
                 sinks_[i].received_traffic[Len(sinks_[i].received_traffic)]
                   = TimedPhit(cycle_, f.phit)
            /\ \A v \in DOMAIN c.reverse_channels :
                 c.reverse_channels[v] =
                   IF f.phit.valid /\ f.phit.vc = v - 1
                   THEN TimedPhit(cycle_, MetadataPhit(1, TRUE))
                   ELSE TimedPhit(cycle_, MetadataPhit(0, FALSE))

\* A sink with two VCs has received a valid phit on VC 1 in a cycle >= 1, and
\* a tick was run after the cycle had converged.
C15_Witness ==
  /\ AfterOk /\ cycle_ >= 1 /\ lastOp = "Tick"
  /\ \E i \in DOMAIN sinks_ :
       LET c == connections_[net.sinks[i].src_connection_index]
       IN /\ sinks_[i].forward_propagated_cycle = cycle_
          /\ Len(c.reverse_channels) = 2
          /\ c.forward_channels.phit.valid
          /\ c.forward_channels.phit.vc = 1
          /\ LoggedIn(i, cycle_) # {}

\* C17: when a cycle has converged with the components ticked in any order
\* within each tick, the connections (phits and stamps), the sources
\* (credits, credit updates, send queues), the links (FIFOs), the routers
\* (buffers, credits, credit updates) and the sinks (logs) are in the state
\* in which the cycle converges under NocSimulator::Tick's own order.
C17_TickOrderIndependent ==
  (pc = "loop" /\ converged) =>
    [conn |-> connections_, src |-> srcs_, link |-> links_,
     router |-> routers_, sink |-> sinks_] = hist.canon

\* A cycle in which the sink logged a phit that came through the router has
\* converged after more ticks than NocSimulator::Tick's own order takes.
C17_Witness ==
  /\ pc = "loop" /\ converged /\ Len(srcs_) = 2
  /\ nticks > 3
  /\ Len(sinks_[1].received_traffic) > 0
  /\ sinks_[1].received_traffic[Len(sinks_[1].received_traffic)].cycle = cycle_

\* C18: a call of SendPhitAtTime on a source with a phit whose VC index is
\* below the source's VC count returns Ok and appends the phit to the send
\* queue of that VC, changing nothing else of the sources; with a VC index
\* at or above the VC count it returns OutOfRange and leaves every source's
\* send queues, credit and credit updates as they were.
C18_SendPhitAtTime ==
  [][SendPhitAtTime =>
       LET i  == hist'.call.src
           vc == hist'.call.phit.phit.vc
       IN IF vc < net.srcs[i].vc_count
          THEN /\ status' = "Ok"
               /\ srcs_' = [srcs_ EXCEPT
                              ![i].data_to_send[vc + 1] =
                                 Append(@, hist'.call.phit)]
          ELSE /\ status' = "OutOfRange"
               /\ srcs_' = srcs_]_vars

\* SendPhitAtTime has returned OutOfRange for a VC index equal to the VC
\* count, on a source that holds credit and a queued phit from an earlier
\* call that returned Ok.
C18_Witness ==
  /\ lastOp = "SendPhitAtTime" /\ status = "OutOfRange"
  /\ hist.call # <<>>
  /\ LET i == hist.call.src
     IN /\ hist.call.phit.phit.vc = net.srcs[i].vc_count
        /\ \E v \in DOMAIN srcs_[i].credit :
             /\ srcs_[i].credit[v] > 0
             /\ srcs_[i].data_to_send[v] # <<>>

\* Component i of a kind, and the components of the network.
Component(kind, i) ==
  CASE kind = "src"    -> srcs_[i]
    [] kind = "link"   -> links_[i]
    [] kind = "router" -> routers_[i]
    [] kind = "sink"   -> sinks_[i]

AllComponents ==
  UNION {{<<kind, i>> : i \in DOMAIN hist.tick[kind]} : kind \in Range(TickOrder)}

BothPropagated(kind, i) ==
  /\ Component(kind, i).forward_propagated_cycle = cycle_
  /\ Component(kind, i).reverse_propagated_cycle = cycle_

\* C19: the last Tick of a component in the current cycle returned true if
\* and only if both its forward_propagated_cycle and its
\* reverse_propagated_cycle equal the cycle; after RunCycle has returned Ok
\* both flags of every component equal the cycle; and in a cycle each phase
\* of a component succeeds at most once and is never attempted after it has
\* succeeded.
C19_ConvergenceContract ==
  /\ \A p \in AllComponents :
       LET t == hist.tick[p[1]][p[2]]
       IN /\ t.ticked => (t.ret <=> BothPropagated(p[1], p[2]))
          /\ t.fwd_ok <= 1 /\ t.rev_ok <= 1
          /\ ~t.retried
  /\ AfterOk => \A p \in AllComponents : BothPropagated(p[1], p[2])

\* In a cycle that has taken three ticks and is not yet converged, the Tick
\* of one component has returned true and that of another false, whose
\* forward phase has succeeded and whose reverse phase has not.
C19_Witness ==
  /\ pc = "loop" /\ nticks >= 3 /\ ~converged
  /\ \E p, q \in AllComponents :
       /\ hist.tick[p[1]][p[2]].ticked /\ hist.tick[p[1]][p[2]].ret
       /\ hist.tick[q[1]][q[2]].ticked /\ ~hist.tick[q[1]][q[2]].ret
       /\ hist.tick[q[1]][q[2]].fwd_ok = 1
       /\ hist.tick[q[1]][q[2]].rev_ok = 0

\* A component whose reverse propagation has succeeded in the current cycle
\* has had its forward propagation succeed in it.
ForwardBeforeReverse(kind, i) ==
  Component(kind, i).reverse_propagated_cycle = cycle_ =>
    Component(kind, i).forward_propagated_cycle = cycle_

RouterReverseWaits(r) ==
  routers_[r].forward_propagated_cycle # cycle_ =>
    /\ \A i \in DOMAIN net.routers[r].inputs :
         \A v \in DOMAIN connections_[net.routers[r].inputs[i]].reverse_channels :
           connections_[net.routers[r].inputs[i]].reverse_channels[v].cycle # cycle_
    /\ \A o \in DOMAIN routers_[r].credit_update :
         \A v \in DOMAIN routers_[r].credit_update[o] :
           routers_[r].credit_update[o][v].cycle # cycle_

Lanes ==
  UNION {{<<l, v>> : v \in 0..Len(links_[l].reverse_credit_stages)} :
           l \in DOMAIN links_}

LaneStages(ln) ==
  IF ln[2] = 0 THEN net.links[ln[1]].forward_pipeline_stages
  ELSE net.links[ln[1]].reverse_pipeline_stages

\* The upstream and the downstream timed phit of a lane, and its FIFO.
LaneFrom(ln) ==
  IF ln[2] = 0
  THEN connections_[net.links[ln[1]].src_connection_index].forward_channels
  ELSE connections_[net.links[ln[1]].sink_connection_index].reverse_channels[ln[2]]

LaneTo(ln) ==
  IF ln[2] = 0
  THEN connections_[net.links[ln[1]].sink_connection_index].forward_channels
  ELSE connections_[net.links[ln[1]].src_connection_index].reverse_channels[ln[2]]

LaneState(ln) ==
  IF ln[2] = 0 THEN links_[ln[1]].forward_data_stages
  ELSE links_[ln[1]].reverse_credit_stages[ln[2]]

LanePushes(ln) ==
  IF ln[2] = 0 THEN hist.pushes[ln[1]].fwd ELSE hist.pushes[ln[1]].rev[ln[2]]

\* C21: TryPropagation on a lane whose downstream timed phit is stamped with
\* the current cycle returns true and leaves the downstream phit, its stamp
\* and the FIFO as they are; and the FIFO of every lane receives at most one
\* push in a cycle, exactly one in a cycle that has converged.
C21_RedriveIdempotent ==
  \A ln \in Lanes :
    /\ (cycle_ >= 0 /\ LaneTo(ln).cycle = cycle_) =>
         TryPropagation(cycle_, LaneStages(ln), LaneFrom(ln), LaneTo(ln),
                        LaneState(ln))
           = [ret |-> TRUE, to |-> LaneTo(ln), state |-> LaneState(ln),
              push |-> 0]
    /\ LanePushes(ln) <= 1
    /\ (pc = "loop" /\ converged) => LanePushes(ln) = 1

\* A cycle that took three ticks has converged: the link's forward lane was
\* driven again after it had carried a valid phit downstream, and holds a
\* phit in its FIFO.
C21_Witness ==
  /\ pc = "loop" /\ converged /\ nticks >= 3
  /\ \E l \in DOMAIN links_ :
       /\ hist.tick["link"][l].fwd_ok = 1
       /\ hist.pushes[l].fwd = 1
       /\ links_[l].forward_data_stages # <<>>
       /\ connections_[net.links[l].sink_connection_index]
            .forward_channels.phit.valid

\* C22: when RunCycle has returned an error, the cycle counter is one more
\* than it was when RunCycle was called.
C22_NoRollback ==
  pc = "failed" => cycle_ = hist.entry_cycle + 1

\* RunCycle has returned InternalError for a cycle >= 1 in which a sink
\* logged a phit.
C22_Witness ==
  /\ pc = "failed" /\ status = "InternalError" /\ cycle_ >= 1
  /\ \E k \in DOMAIN sinks_ : LoggedIn(k, cycle_) # {}

\* CreateSimulationObjects has returned an error from the loop over the
\* components, at a component of kind kNone.
FailedAtNone ==
  /\ pc = "create_failed"
  /\ Len(connections_) = Len(net.port_vc)
  /\ net.components[hist.created + 1][1] = "none"

\* The simulation objects are those CreateSimulationObjects makes of the
\* network: one connection state per connection, one object per component.
AllCreated ==
  /\ Len(connections_) = Len(net.port_vc)
  /\ Created = Len(net.components)
  /\ connections_ = CreateSimulationObjects(net, cycle_).conn
  /\ srcs_ = CreateSimulationObjects(net, cycle_).src
  /\ links_ = CreateSimulationObjects(net, cycle_).link
  /\ routers_ = CreateSimulationObjects(net, cycle_).router
  /\ sinks_ = CreateSimulationObjects(net, cycle_).sink

SrcCreditAfterUpdate(i) ==
  [v \in DOMAIN srcs_[i].credit |->
     srcs_[i].credit[v]
       + (IF srcs_[i].credit_update[v].credit > 0
          THEN srcs_[i].credit_update[v].credit ELSE 0)]

\* The scan of the send loop of source i from VC v (1-based) on, in cycle k:
\* the VC it sends from, 0 when it reaches the end.
RECURSIVE SrcScan(_, _, _)
SrcScan(i, v, k) ==
  IF v > Len(srcs_[i].data_to_send) THEN 0
  ELSE IF /\ Len(srcs_[i].data_to_send[v]) > 0
          /\ srcs_[i].data_to_send[v][1].cycle <= k
          /\ SrcCreditAfterUpdate(i)[v] > 0
       THEN v
       ELSE SrcScan(i, v + 1, k)

\* C24: in the first tick of a cycle every source's forward propagation
\* succeeds, and stamps its connection's forward channel with the cycle.  If
\* v is the lowest VC whose queue head is due and whose credit (after the
\* credit update) is positive, the channel carries that head with valid set
\* and vc = v, the head is popped and the credit of v is one less; no other
\* queue or credit changes.  If there is no such VC the channel carries a
\* bubble with data, vc and destination_index 0, and no queue changes.
C24_SrcForward ==
  [][(RunCycleTick /\ nticks = 0 /\ pc' = "loop") =>
       \A i \in DOMAIN srcs_ :
         LET v == SrcScan(i, 1, cycle_)
             f == connections_'[net.srcs[i].sink_connection_index].forward_channels
         IN /\ srcs_'[i].forward_propagated_cycle = cycle_
            /\ hist'.tick["src"][i].fwd_ok = 1
            /\ f.cycle = cycle_
            /\ IF v # 0
               THEN /\ f.phit = [srcs_[i].data_to_send[v][1].phit EXCEPT
                                   !.valid = TRUE, !.vc = v - 1]
                    /\ srcs_'[i].data_to_send =
                         [srcs_[i].data_to_send EXCEPT ![v] = Tail(@)]
                    /\ srcs_'[i].credit =
                         [SrcCreditAfterUpdate(i) EXCEPT ![v] = @ - 1]
               ELSE /\ f.phit = DataPhit(0, FALSE, 0, 0)
                    /\ srcs_'[i].data_to_send = srcs_[i].data_to_send
                    /\ srcs_'[i].credit = SrcCreditAfterUpdate(i)]_vars

\* In the first tick of a cycle a source has sent a phit on VC 1 past the
\* head of VC 0, which was due some cycles before and has no credit.
C24_Witness ==
  /\ pc = "loop" /\ nticks = 1 /\ cycle_ >= 2
  /\ \E i \in DOMAIN srcs_ :
       LET f == connections_[net.srcs[i].sink_connection_index].forward_channels
       IN /\ Len(srcs_[i].data_to_send) = 2
          /\ f.cycle = cycle_ /\ f.phit.valid /\ f.phit.vc = 1
          /\ srcs_[i].data_to_send[1] # <<>>
          /\ Head(srcs_[i].data_to_send[1]).cycle < cycle_
          /\ srcs_[i].credit[1] = 0

\* The part of the credit updates captured so far on one (output, VC) that
\* is not yet in the credit counter: the update held in credit_update, when
\* it was captured in the current cycle or when the credit update of the
\* current cycle (stamped in applied_cycle) has not been done.
CreditNotApplied(credit_update, applied_cycle) ==
  IF applied_cycle # cycle_ \/ credit_update.cycle = cycle_
  THEN credit_update.credit
  ELSE 0

\* C25: in every state the credit counter of every (output, VC) of every
\* source and router is the sum of the credit updates captured in earlier
\* cycles, each counted once, less the phits sent: the update captured in
\* cycle k is in the counter from the first forward attempt of cycle k+1
\* on, and a later attempt of that cycle does not add it again.
C25_AppliedOnce ==
  /\ \A i \in DOMAIN srcs_ : \A v \in DOMAIN srcs_[i].credit :
       srcs_[i].credit[v] =
         InitialCredit + hist.src_recv[i][v] - hist.src_sent[i][v]
           - CreditNotApplied(srcs_[i].credit_update[v],
                              srcs_[i].forward_propagated_cycle)
  /\ \A r \in DOMAIN routers_ : \A o \in DOMAIN routers_[r].credit :
       \A v \in DOMAIN routers_[r].credit[o] :
         routers_[r].credit[o][v] =
           InitialCredit + hist.rtr_recv[r][o][v] - hist.rtr_sent[r][o][v]
             - CreditNotApplied(routers_[r].credit_update[o][v],
                                routers_[r].internal_propagated_cycle)

\* In the chain, in a cycle >= 1, the second router holds a credit update
\* of the cycle before and has propagated forward by the second tick (its
\* input is driven by the link, which the first tick runs before the first
\* router has written: the forward attempt of the first tick is gated).
C25_Witness ==
  /\ net.name = "chain" /\ pc = "loop" /\ nticks = 2 /\ cycle_ >= 1
  /\ hist.tick["router"][2].fwd_ok = 1
  /\ routers_[2].internal_propagated_cycle = cycle_
  /\ routers_[2].forward_propagated_cycle = cycle_
  /\ routers_[2].credit_update[1][1].cycle = cycle_ - 1
  /\ routers_[2].credit_update[1][1].credit > 0

\* The phits pushed last onto the FIFO of a lane, oldest first.
LanePushed(ln) ==
  IF ln[2] = 0 THEN hist.pushed[ln[1]].fwd ELSE hist.pushed[ln[1]].rev[ln[2]]

\* The last n elements of a sequence (all of it if it has fewer).
LastOf(w, n) ==
  IF Len(w) <= n THEN w ELSE SubSeq(w, Len(w) - n + 1, Len(w))

\* C26: on every lane of every link the FIFO never holds more phits than
\* the lane has stages.  Once the lane has been driven in cycle k, the phit
\* pushed last is the one written upstream in cycle k, one phit has been
\* pushed in each of the cycles 0..k, and the FIFO holds the phits pushed
\* last, in the order they were pushed; downstream is stamped k and holds
\* the phit pushed stage_count cycles before, or, when k < stage_count, a
\* phit with valid = false and data = 0.  A cycle that has returned Ok has
\* driven every lane.
C26_LinkPipeline ==
  \A ln \in Lanes :
    LET n == LaneStages(ln)
        w == LanePushed(ln)
    IN /\ Len(LaneState(ln)) <= n
       /\ AfterOk => LanePushes(ln) = 1
       /\ LanePushes(ln) = 1 =>
            /\ LaneFrom(ln).cycle = cycle_ /\ LaneTo(ln).cycle = cycle_
            /\ Len(w) = (IF cycle_ > MaxStages THEN MaxStages ELSE cycle_) + 1
            /\ w[Len(w)] = LaneFrom(ln).phit
            /\ LaneState(ln) = LastOf(w, IF cycle_ < n THEN cycle_ + 1 ELSE n)
            /\ IF cycle_ >= n
               THEN LaneTo(ln).phit = w[Len(w) - n]
               ELSE ~LaneTo(ln).phit.valid /\ LaneTo(ln).phit.data = 0

\* A cycle has returned Ok with a valid phit downstream of a forward lane
\* of 2 stages, two cycles after the source wrote it and with nothing
\* written behind it; the reverse lane has 2 stages as well, and both hold
\* the credit the sink granted in cycle 0 and the source has spent.
C26_Witness ==
  /\ AfterOk /\ net.name = "link" /\ cycle_ >= 3
  /\ LaneStages(<<1, 0>>) = 2 /\ LaneStages(<<1, 1>>) = 2
  /\ LaneTo(<<1, 0>>).phit.valid
  /\ LanePushed(<<1, 0>>)[1].valid
  /\ ~LaneFrom(<<1, 0>>).phit.valid
  /\ Len(LaneState(<<1, 1>>)) = 2
  /\ hist.src_sent[1][1] = 1

\* The forward stamp of some input connection of router r is not the
\* current cycle once the tick is over (the stamps of a cycle are only ever
\* set, so it was not when the router ran in the tick).
RouterInputMissing(r) ==
  \E i \in DOMAIN net.routers[r].inputs :
    connections_'[net.routers[r].inputs[i]].forward_channels.cycle # cycle_

\* C27: in a tick that finds a router not yet propagated forward, if some
\* input connection is not stamped with the current cycle the attempt
\* returns false and leaves the input buffers, the forward channels of the
\* output connections, input_credit_to_send and the forward flag as they
\* were; if every input connection is stamped the attempt succeeds.
C27_InputGate ==
  [][(RunCycleTick /\ pc' = "loop") =>
       \A r \in DOMAIN routers_ :
         routers_[r].forward_propagated_cycle # cycle_ =>
           IF RouterInputMissing(r)
           THEN /\ routers_'[r].input_buffers = routers_[r].input_buffers
                /\ routers_'[r].input_credit_to_send =
                     routers_[r].input_credit_to_send
                /\ \A o \in DOMAIN net.routers[r].outputs :
                     connections_'[net.routers[r].outputs[o]].forward_channels
                       = connections_[net.routers[r].outputs[o]].forward_channels
                /\ routers_'[r].forward_propagated_cycle =
                     routers_[r].forward_propagated_cycle
                /\ hist'.tick["router"][r].fwd_ok = 0
                /\ ~hist'.tick["router"][r].ret
           ELSE /\ routers_'[r].forward_propagated_cycle = cycle_
                /\ hist'.tick["router"][r].fwd_ok = 1]_vars

\* In the chain, after the first tick of a cycle >= 1: the first router has
\* written a valid phit, the link has not yet driven it on, and the second
\* router, which owes a credit for the phit it took the cycle before, has
\* made its attempt and is not propagated forward.
C27_Witness ==
  /\ net.name = "chain" /\ pc = "loop" /\ nticks = 1 /\ cycle_ >= 1
  /\ connections_[2].forward_channels.cycle = cycle_
  /\ connections_[2].forward_channels.phit.valid
  /\ connections_[3].forward_channels.cycle = cycle_ - 1
  /\ connections_[3].forward_channels.phit.valid
  /\ routers_[2].internal_propagated_cycle = cycle_
  /\ routers_[2].forward_propagated_cycle = cycle_ - 1
  /\ routers_[2].input_credit_to_send[1][1] = 1

\* Router r makes its forward pass in this tick.
RouterSucceeds(r) ==
  /\ routers_[r].forward_propagated_cycle # cycle_
  /\ routers_'[r].forward_propagated_cycle = cycle_

\* The input buffers of router r once the forward pass of this tick has
\* taken in the valid phits of its input connections.
RouterBuffersIngested(r) ==
  [i \in DOMAIN routers_[r].input_buffers |->
     [v \in DOMAIN routers_[r].input_buffers[i] |->
        LET in == connections_'[net.routers[r].inputs[i]].forward_channels.phit
        IN IF in.valid /\ in.vc = v - 1
           THEN routers_[r].input_buffers[i][v] \o <<in>>
           ELSE routers_[r].input_buffers[i][v]]]

\* The credit of (output o, VC v) of router r when the forward pass of this
\* tick arbitrates.
RouterCreditUpdated(r, o, v) ==
  IF /\ routers_[r].internal_propagated_cycle # cycle_
     /\ routers_[r].credit_update[o][v].credit > 0
  THEN routers_[r].credit[o][v] + routers_[r].credit_update[o][v].credit
  ELSE routers_[r].credit[o][v]

\* The output port and VC (0-based) of the head of (input i, VC v), v
\* 1-based.
RouterHeadRoute(r, i, v) ==
  net.routers[r].route[<<i, v - 1,
                         RouterBuffersIngested(r)[i][v][1].destination_index>>]

\* The pairs <<v, i>> whose buffer has a head that routes to output o on an
\* output VC with credit.
RouterCandidates(r, o) ==
  {c \in (1..MaxVc(net.routers[r])) \X DOMAIN net.routers[r].inputs :
     /\ c[1] <= Len(RouterBuffersIngested(r)[c[2]])
     /\ RouterBuffersIngested(r)[c[2]][c[1]] # <<>>
     /\ RouterHeadRoute(r, c[2], c[1]).port_index = o
     /\ RouterCreditUpdated(r, o, RouterHeadRoute(r, c[2], c[1]).vc_index + 1) > 0}

\* The candidate with the least VC and, among those, the least input port.
RouterWinner(r, o) ==
  CHOOSE c \in RouterCandidates(r, o) :
    \A d \in RouterCandidates(r, o) :
      c[1] < d[1] \/ (c[1] = d[1] /\ c[2] <= d[2])

\* C28: the forward pass of a router drives on each output port the head of
\* the candidate (a head that routes to the port and has credit) of the
\* least VC, and of the least input port among the candidates of that VC,
\* whatever the input ports of the candidates of higher VCs are; an input
\* port is no candidate for a VC it does not have; a port with no candidate
\* carries a bubble.
C28_VcMajor ==
  [][(RunCycleTick /\ pc' = "loop") =>
       \A r \in DOMAIN routers_ : RouterSucceeds(r) =>
         \A o \in DOMAIN net.routers[r].outputs :
           LET f == connections_'[net.routers[r].outputs[o]].forward_channels
               w == RouterWinner(r, o)
           IN /\ f.cycle = cycle_
              /\ IF RouterCandidates(r, o) = {}
                 THEN f.phit = DataPhit(0, FALSE, 0, 0)
                 ELSE f.phit =
                        [RouterBuffersIngested(r)[w[2]][w[1]][1] EXCEPT
                           !.valid = TRUE,
                           !.vc = RouterHeadRoute(r, w[2], w[1]).vc_index]]_vars

\* In the crossbar the first sink has taken, in one cycle, the phit of
\* (input 2, VC 0), while the phit of (input 1, VC 1), for the same output
\* port and with credit, is still in its buffer.
C28_Witness ==
  /\ net.name = "xbar" /\ pc = "loop" /\ cycle_ >= 1
  /\ routers_[1].forward_propagated_cycle = cycle_
  /\ routers_[1].input_credit_to_send[2][1] = 1
  /\ connections_[3].forward_channels.phit.valid
  /\ connections_[3].forward_channels.phit.vc = 0
  /\ routers_[1].input_buffers[1][2] # <<>>
  /\ Head(routers_[1].input_buffers[1][2]).destination_index = 0
  /\ routers_[1].credit[1][2] > 0

\* C29: in the forward pass of a router every input buffer either keeps
\* what it holds or loses its head, and nothing else; a head that stays
\* although its output VC has credit routes to an output port that carries
\* the phit of another head.  So a head that is held back (no credit, or
\* port taken) stays as it is and holds back no head of another VC or
\* input port that has credit and a free output port.
C29_HeadOfLineFree ==
  [][(RunCycleTick /\ pc' = "loop") =>
       \A r \in DOMAIN routers_ : RouterSucceeds(r) =>
         \A i \in DOMAIN routers_[r].input_buffers :
           \A v \in DOMAIN routers_[r].input_buffers[i] :
             LET B == RouterBuffersIngested(r)[i][v]
                 o == RouterHeadRoute(r, i, v)
                 f == connections_'[net.routers[r].outputs[o.port_index]]
                        .forward_channels
             IN \/ B = <<>> /\ routers_'[r].input_buffers[i][v] = <<>>
                \/ /\ B # <<>>
                   /\ routers_'[r].input_buffers[i][v] = Tail(B)
                   /\ f = TimedPhit(cycle_, [B[1] EXCEPT !.valid = TRUE,
                                                         !.vc = o.vc_index])
                \/ /\ B # <<>>
                   /\ routers_'[r].input_buffers[i][v] = B
                   /\ \/ RouterCreditUpdated(r, o.port_index, o.vc_index + 1) <= 0
                      \/ /\ f.cycle = cycle_ /\ f.phit.valid
                         /\ f.phit # [B[1] EXCEPT !.valid = TRUE,
                                                  !.vc = o.vc_index]]_vars

\* In the crossbar with a first sink whose VC 0 has depth 0, the router has
\* sent the head of (input 1, VC 1) to the first sink in a cycle in which
\* the head of (input 1, VC 0), for the same sink, stays for want of credit.
C29_Witness ==
  /\ net.name = "xbar" /\ pc = "loop" /\ cycle_ >= 2
  /\ routers_[1].forward_propagated_cycle = cycle_
  /\ routers_[1].input_buffers[1][1] # <<>>
  /\ Head(routers_[1].input_buffers[1][1]).destination_index = 0
  /\ routers_[1].credit[1][1] = 0
  /\ routers_[1].input_credit_to_send[1][2] = 1
  /\ connections_[3].forward_channels.cycle = cycle_
  /\ connections_[3].forward_channels.phit.valid
  /\ connections_[3].forward_channels.phit.vc = 1

\* The phits the forward pass of this tick pops from (input i, VC v) of
\* router r.
RouterPops(r, i, v) ==
  Len(RouterBuffersIngested(r)[i][v]) - Len(routers_'[r].input_buffers[i][v])

\* C30: in a cycle >= 1, the tick in which a router makes its forward pass
\* publishes on the reverse channel of every (input, VC) a valid credit phit
\* of the current cycle whose data is the number of phits the pass popped
\* from that buffer, 0 or 1; the later ticks of the cycle leave the
\* published phits as they are.  In cycle 0 nothing is popped.
C30_CreditReturn ==
  [][(RunCycleTick /\ pc' = "loop") =>
       \A r \in DOMAIN routers_ :
         routers_'[r].forward_propagated_cycle = cycle_ =>
           \A i \in DOMAIN routers_[r].input_buffers :
             LET c == net.routers[r].inputs[i]
             IN IF RouterSucceeds(r)
                THEN \A v \in DOMAIN routers_[r].input_buffers[i] :
                       /\ RouterPops(r, i, v) \in {0, 1}
                       /\ cycle_ = 0 => RouterPops(r, i, v) = 0
                       /\ cycle_ >= 1 =>
                            connections_'[c].reverse_channels[v] =
                              TimedPhit(cycle_,
                                MetadataPhit(RouterPops(r, i, v), TRUE))
                ELSE connections_'[c].reverse_channels =
                       connections_[c].reverse_channels]_vars

\* In the crossbar, in a cycle >= 2, the router has returned one credit on
\* (input 1, VC 1) for the phit it passed on and none on (input 1, VC 0),
\* whose phit it passed on a cycle before.
C30_Witness ==
  /\ net.name = "xbar" /\ pc = "loop" /\ cycle_ >= 2
  /\ routers_[1].forward_propagated_cycle = cycle_
  /\ connections_[1].reverse_channels[1] =
       TimedPhit(cycle_, MetadataPhit(0, TRUE))
  /\ connections_[1].reverse_channels[2] =
       TimedPhit(cycle_, MetadataPhit(1, TRUE))
  /\ hist.rtr_sent[1][1][1] = 1
  /\ hist.rtr_sent[1][1][2] = 1

\* The connection states created so far all have: a forward phit that is
\* invalid with data, vc and destination_index 0, one reverse phit per VC
\* of the upstream port (one if the port declares none), each invalid with
\* data 0, and every stamp equal to cycle.
ConnectionsCreatedAt(cycle) ==
  \A c \in DOMAIN connections_ :
    /\ connections_[c].forward_channels =
         [cycle |-> cycle,
          phit  |-> [data |-> 0, valid |-> FALSE, vc |-> 0,
                     destination_index |-> 0]]
    /\ Len(connections_[c].reverse_channels) =
         (IF net.port_vc[c] = 0 THEN 1 ELSE net.port_vc[c])
    /\ \A v \in DOMAIN connections_[c].reverse_channels :
         connections_[c].reverse_channels[v] =
           [cycle |-> cycle, phit |-> [data |-> 0, valid |-> FALSE]]

\* C31 (as the code has it): CreateConnection gives every connection an
\* invalid, zeroed forward phit and one invalid reverse phit with data 0
\* per VC of the upstream port, exactly one for a port that declares zero
\* VCs, all stamped with the cycle counter of the simulator, which is -1
\* when the simulation objects are created.
C31_CreateConnection ==
  /\ pc \in {"create_connections", "create_components", "create_failed"} =>
       ConnectionsCreatedAt(cycle_)
  /\ cycle_ = -1

\* C31 as stated: the phits of a new connection are stamped cycle 0.
C31_StampedZero ==
  pc \in {"create_connections", "create_components", "create_failed"} =>
    ConnectionsCreatedAt(0)

\* CreateSimulationObjects has returned Ok for a network whose ports
\* declare zero VCs.
C31_Witness ==
  /\ pc = "idle" /\ status = "Ok" /\ lastOp = "CreateSimulationObjects"
  /\ Len(connections_) = 2
  /\ net.port_vc[1] = 0
  /\ Len(connections_[1].reverse_channels) = 1
  /\ ConnectionsCreatedAt(-1)

\* ------------------------------------------------------------------- C32
\* The channels a component may write: lane 0 of a connection is its forward
\* channel, lane v its reverse channel of VC v - 1.
ReverseLanesOf(c) == {<<c, v>> : v \in DOMAIN connections_[c].reverse_channels}

Footprint(kind, i) ==
  CASE kind = "src"    -> {<<net.srcs[i].sink_connection_index, 0>>}
    [] kind = "link"   -> {<<net.links[i].sink_connection_index, 0>>}
                          \cup ReverseLanesOf(net.links[i].src_connection_index)
    [] kind = "router" -> {<<c, 0>> : c \in Range(net.routers[i].outputs)}
                          \cup UNION {ReverseLanesOf(c) :
                                        c \in Range(net.routers[i].inputs)}
    [] kind = "sink"   -> ReverseLanesOf(net.sinks[i].src_connection_index)

\* The components that are an endpoint of connection c.
EndpointsOf(c) ==
  {k \in AllComponents :
     \/ k[1] = "src" /\ net.srcs[k[2]].sink_connection_index = c
     \/ k[1] = "link" /\ c \in {net.links[k[2]].src_connection_index,
                                 net.links[k[2]].sink_connection_index}
     \/ k[1] = "router" /\ c \in Range(net.routers[k[2]].inputs)
                                  \cup Range(net.routers[k[2]].outputs)
     \/ k[1] = "sink" /\ net.sinks[k[2]].src_connection_index = c}

\* C32: a Tick of a source changes only the forward channel of its output
\* connection, a Tick of a link only the forward channel of its downstream
\* connection and the reverse channels of its upstream connection, a Tick of
\* a router only the forward channels of its outputs and the reverse
\* channels of its inputs, a Tick of a sink only the reverse channels of its
\* upstream connection; no component changes a connection it is not an
\* endpoint of, and every channel lane has exactly one component that may
\* write it.
C32_WriteFootprint ==
  /\ \A w \in hist.wrote :
       /\ <<w.c, w.lane>> \in Footprint(w.kind, w.i)
       /\ <<w.kind, w.i>> \in EndpointsOf(w.c)
  /\ \A c \in DOMAIN connections_ :
       \A lane \in {<<c, 0>>} \cup ReverseLanesOf(c) :
         Cardinality({k \in AllComponents : lane \in Footprint(k[1], k[2])}) = 1

\* A cycle of the network with two sources, a router, a link and a sink has
\* converged, and components of all four kinds have written every lane of
\* their footprints.
C32_Witness ==
  /\ net.name = "arb" /\ pc = "idle" /\ status = "Ok" /\ lastOp = "RunCycle"
  /\ \A k \in AllComponents :
       {<<w.c, w.lane>> : w \in {x \in hist.wrote : <<x.kind, x.i>> = k}}
         = Footprint(k[1], k[2])

\* ------------------------------------------------------------------- C33
\* C33: a router input buffer never holds more phits than its depth:
\* Len(input_buffers[i][v]) <= max_queue_size of the buffer, for every
\* router, input port and VC, in every state.
C33_NoOverflow ==
  \A r \in DOMAIN routers_ :
    \A i \in DOMAIN routers_[r].input_buffers :
      \A v \in DOMAIN routers_[r].input_buffers[i] :
        Len(routers_[r].input_buffers[i][v]) <= net.routers[r].in_depth[i][v]

\* A cycle has converged with an input buffer of depth 1 full, its phit
\* held back by an output without credit, while the source upstream has
\* another phit due on the same VC and no credit to send it.
C33_Witness ==
  /\ net.name = "xbar" /\ pc = "idle" /\ status = "Ok" /\ lastOp = "RunCycle"
  /\ cycle_ >= 2
  /\ net.routers[1].in_depth[1][1] = 1
  /\ Len(routers_[1].input_buffers[1][1]) = 1
  /\ srcs_[1].data_to_send[1] # <<>>
  /\ Head(srcs_[1].data_to_send[1]).cycle <= cycle_
  /\ srcs_[1].credit[1] = 0

\* ------------------------------------------------------------------- C34
\* The sender upstream of link l: the credit and the pending credit update
\* of the source or router output that drives the link's upstream
\* connection, per VC (1-based).
SenderCredit(l, v) ==
  LET u == net.links[l].src_connection_index
  IN SeqSum([i \in DOMAIN srcs_ |->
               IF net.srcs[i].sink_connection_index = u
               THEN srcs_[i].credit[v] + srcs_[i].credit_update[v].credit
               ELSE 0])
     + SeqSum([r \in DOMAIN routers_ |->
                 SeqSum([o \in DOMAIN net.routers[r].outputs |->
                           IF net.routers[r].outputs[o] = u
                           THEN routers_[r].credit[o][v]
                                + routers_[r].credit_update[o][v].credit
                           ELSE 0])])

\* The credit values in the reverse FIFO of VC v of link l, and the valid
\* phits of VC v in its forward FIFO.
LinkCreditsInFlight(l, v) ==
  SeqSum([k \in DOMAIN links_[l].reverse_credit_stages[v] |->
            CapturedCredit([phit |-> links_[l].reverse_credit_stages[v][k]])])

LinkPhitsInFlight(l, v) ==
  Cardinality({k \in DOMAIN links_[l].forward_data_stages :
                 /\ links_[l].forward_data_stages[k].valid
                 /\ links_[l].forward_data_stages[k].vc = v - 1})

\* The phits held in the input buffer of VC v downstream of link l (a sink
\* holds none), and the depth of that buffer.
DownstreamHeld(l, v) ==
  LET d == net.links[l].sink_connection_index
  IN SeqSum([r \in DOMAIN routers_ |->
               SeqSum([i \in DOMAIN net.routers[r].inputs |->
                         IF net.routers[r].inputs[i] = d
                         THEN Len(routers_[r].input_buffers[i][v])
                         ELSE 0])])

DownstreamDepth(l, v) ==
  LET d == net.links[l].sink_connection_index
  IN SeqSum([r \in DOMAIN routers_ |->
               SeqSum([i \in DOMAIN net.routers[r].inputs |->
                         IF net.routers[r].inputs[i] = d
                         THEN net.routers[r].in_depth[i][v]
                         ELSE 0])])
     + SeqSum([i \in DOMAIN sinks_ |->
                 IF net.sinks[i].src_connection_index = d
                 THEN net.sinks[i].depth[v]
                 ELSE 0])

CreditTotal(l, v) ==
  SenderCredit(l, v) + LinkCreditsInFlight(l, v) + LinkPhitsInFlight(l, v)
    + DownstreamHeld(l, v)

\* C34: after every converged cycle k >= 0, for every link and VC, the
\* credit of the sender upstream, its pending credit update, the credit
\* values in the link's reverse FIFO, the valid phits of the VC in the
\* link's forward FIFO and the phits in the input buffer downstream add up
\* to the depth of that buffer.
C34_CreditConservation ==
  AfterOk =>
    \A l \in DOMAIN links_ :
      \A v \in DOMAIN links_[l].reverse_credit_stages :
        CreditTotal(l, v) = DownstreamDepth(l, v)

\* A cycle has converged with a buffer of depth 2 behind a link of one stage
\* each way holding a phit, a second phit in the link's forward FIFO, and
\* the source out of credit.
C34_Witness ==
  /\ AfterOk /\ net.name = "feed" /\ status = "Ok" /\ lastOp = "RunCycle"
  /\ net.routers[1].in_depth[1][1] = 2
  /\ Len(routers_[1].input_buffers[1][1]) = 1
  /\ LinkPhitsInFlight(1, 1) = 1
  /\ SenderCredit(1, 1) = 0

\* ------------------------------------------------------------------- C35
\* The number of places that hold the phit with a given data word: the send
\* queues of the sources, the forward FIFOs of the links, the input buffers
\* of the routers and the reception logs of the sinks.
Occurrences(s, data) ==
  Cardinality({k \in DOMAIN s : s[k].valid /\ s[k].data = data})

TimedOccurrences(s, data) ==
  Cardinality({k \in DOMAIN s : s[k].phit.valid /\ s[k].phit.data = data})

Places(data) ==
  SeqSum([i \in DOMAIN srcs_ |->
            SeqSum([v \in DOMAIN srcs_[i].data_to_send |->
                      TimedOccurrences(srcs_[i].data_to_send[v], data)])])
  + SeqSum([l \in DOMAIN links_ |->
              Occurrences(links_[l].forward_data_stages, data)])
  + SeqSum([r \in DOMAIN routers_ |->
              SeqSum([i \in DOMAIN routers_[r].input_buffers |->
                        SeqSum([v \in DOMAIN routers_[r].input_buffers[i] |->
                                  Occurrences(routers_[r].input_buffers[i][v],
                                              data)])])])
  + SeqSum([i \in DOMAIN sinks_ |->
              TimedOccurrences(sinks_[i].received_traffic, data)])

\* The phit is on the forward channel of a connection, written in the
\* current cycle.
OnForwardChannel(data) ==
  \E c \in DOMAIN connections_ :
    /\ connections_[c].forward_channels.cycle = cycle_
    /\ connections_[c].forward_channels.phit.valid
    /\ connections_[c].forward_channels.phit.data = data

\* The position of the phit in the reception log of a sink, 0 if no log
\* holds it.
LogPosition(data) ==
  SeqSum([i \in DOMAIN sinks_ |->
            SeqSum([k \in DOMAIN sinks_[i].received_traffic |->
                      IF sinks_[i].received_traffic[k].phit.data = data
                      THEN k ELSE 0])])

\* Every phit of a reception log is an accepted phit with its data and
\* destination_index; accepted phits of one source and VC with the same
\* destination arrive in the order they were accepted.
ArrivesUnchangedInOrder ==
  /\ \A i \in DOMAIN sinks_ :
       \A k \in DOMAIN sinks_[i].received_traffic :
         \E a \in DOMAIN hist.accepted :
           /\ hist.accepted[a].phit.data = sinks_[i].received_traffic[k].phit.data
           /\ hist.accepted[a].phit.destination_index
                = sinks_[i].received_traffic[k].phit.destination_index
           /\ sinks_[i].received_traffic[k].phit.valid
  /\ \A a, b \in DOMAIN hist.accepted :
       (/\ a < b
        /\ hist.accepted[a].src = hist.accepted[b].src
        /\ hist.accepted[a].phit.vc = hist.accepted[b].phit.vc
        /\ hist.accepted[a].phit.destination_index
             = hist.accepted[b].phit.destination_index
        /\ LogPosition(hist.accepted[b].phit.data) > 0)
       => /\ LogPosition(hist.accepted[a].phit.data) > 0
          /\ LogPosition(hist.accepted[a].phit.data)
               < LogPosition(hist.accepted[b].phit.data)

Delivered(k) ==
  /\ Len(hist.accepted) >= k
  /\ LogPosition(hist.accepted[k].phit.data) > 0

\* C36: in a network with a valid routing table and every buffer depth >= 1,
\* when finitely many phits are injected and RunCycle keeps being called,
\* every phit that was accepted is eventually appended to the reception log
\* of a sink.
C36_EventualDelivery ==
  \A k \in 1..MaxInject : (Len(hist.accepted) >= k) ~> Delivered(k)

\* Two sources have each injected a phit for the one output of the router
\* in the same cycle, and both phits are in the sink's log.
C36_Witness ==
  /\ Len(net.srcs) = 2 /\ Len(net.routers[1].outputs) = 1
  /\ Len(hist.accepted) = 2
  /\ hist.accepted[1].src # hist.accepted[2].src
  /\ Delivered(1) /\ Delivered(2)
  /\ Len(sinks_[1].received_traffic) = 2

\* ------------------------------------------------------------------- C37
\* The state NocSimulator::Tick reads and writes: the connections and the
\* components (the cycle counter is not changed by a tick).
TickState == <<connections_, srcs_, links_, routers_, sinks_>>

\* C37: in every network in which each connection has one upstream and one
\* downstream component, rings included, the tick loop of every cycle
\* reaches a tick in which all components report converged.  Tick is a
\* function of the simulator's state, so a tick of the loop that reports
\* not converged must have changed that state: after one that has not,
\* every later tick of the cycle does the same and the loop never ends.
C37_TickLoopConverges ==
  [][(pc = "loop" /\ nticks' = nticks + 1)
       => (converged' \/ TickState' # TickState)]_vars

\* Outside the ring: in the networks without a forward loop every tick
\* that reports not converged has changed the simulator's state.
AcyclicTickProgress ==
  [][(pc = "loop" /\ nticks' = nticks + 1 /\ net.name # "ring")
       => (converged' \/ TickState' # TickState)]_vars

\* ------------------------------------------------------------------- C38
\* C38: up to the end of cycle 0 no forward channel carries a valid phit,
\* so the grants of cycle 0 lose no credit: no sink has received a phit (no
\* one-credit return is overwritten by the full grant), no router holds or
\* has popped a phit (input_credit_to_send, which the grant of cycle 0
\* leaves out, is 0), and no link holds a valid phit.
C38_NothingForwardedInCycleZero ==
  cycle_ <= 0 =>
    /\ \A c \in DOMAIN connections_ :
         ~connections_[c].forward_channels.phit.valid
    /\ \A i \in DOMAIN sinks_ : sinks_[i].received_traffic = <<>>
    /\ \A r \in DOMAIN routers_ :
         \A i \in DOMAIN routers_[r].input_buffers :
           \A v \in DOMAIN routers_[r].input_buffers[i] :
             /\ routers_[r].input_buffers[i][v] = <<>>
             /\ routers_[r].input_credit_to_send[i][v] = 0
    /\ \A l \in DOMAIN links_ :
         \A k \in DOMAIN links_[l].forward_data_stages :
           ~links_[l].forward_data_stages[k].valid

\* Cycle 0 of the 2x2 router has converged while both sources hold a phit
\* that was due in cycle 0; the first source has captured the router's full
\* grant and has no credit yet.
C38_Witness ==
  /\ net.name = "xbar" /\ pc = "idle" /\ status = "Ok" /\ lastOp = "RunCycle"
  /\ cycle_ = 0
  /\ \A i \in DOMAIN srcs_ : \E v \in DOMAIN srcs_[i].data_to_send :
       /\ srcs_[i].data_to_send[v] # <<>>
       /\ Head(srcs_[i].data_to_send[v]).cycle <= 0
  /\ srcs_[1].credit[1] = 0
  /\ srcs_[1].credit_update[1] = CreditState(0, net.routers[1].in_depth[1][1])
  /\ connections_[net.sinks[1].src_connection_index].reverse_channels[2]
       = FullGrant(net.sinks[1].depth[2])

\* ------------------------------------------------------------------- C39
\* C39: every VC index used by a sink or a router input to read a per-VC
\* input buffer or credit accumulator is below the number of per-VC buffers
\* of that sink or input port, also for a port that declares zero VCs: no
\* read past the end of input_buffers_ or input_credit_to_send_ happens.
C39_IndicesInRange == hist.out_of_range = {}

====
